---- MODULE Spec2Model ----
(***************************************************************************)
(* cobra-shell: the completion-protocol engine (completer.Do, complete,    *)
(* tryComplete, parseCompletions, helpFallback, parseHelp), the session    *)
(* environment layer (SetEnv, UnsetEnv, SessionEnv, buildEnv, the env      *)
(* built-in) and the command executor (Shell.execute).                     *)
(*                                                                         *)
(* A Go string is a sequence of one-character strings, so that splitting,  *)
(* trimming, prefix tests, formatting "KEY=VALUE" and parsing it back are  *)
(* computed character by character, as the code computes them.             *)
(***************************************************************************)
EXTENDS Integers, Sequences, FiniteSets, TLC

VARIABLES
    cfg,          \* Shell.cfg: the Config given to New (Env, EnvBuiltin, hooks)
    hostEnv,      \* os.Environ(): the shell process's own environment
    sessionEnv,   \* Shell.sessionEnv: map from variable name to value
    lastExitCode, \* Shell.lastExitCode
    binary,       \* Shell.binary: the resolved path, empty when New failed
    initErr,      \* TRUE when New stored an error (Shell.initErr # nil)
    crashed,      \* TRUE once a runtime panic or a signal has ended the process
    last,         \* what the most recent call did and returned
    build,        \* which of the repository's two revisions of completer.go
                  \* is compiled: "completer.go" (src/completer.go) or
                  \* "part_001" (the first file of src/unnamed/part_001)
    runPc,        \* where Shell.Run is: "idle" (not called), "reading" (in its
                  \* loop, about to call Readline), "returned", "killed" (the
                  \* process was ended inside Run)
    runLog,       \* what Run has done so far, in order
    pty           \* one call of spawnCommand with its tasks: the caller's
                  \* position, the child, the pseudo-terminal, the resize
                  \* watcher and the stdin copy task

vars == <<cfg, hostEnv, sessionEnv, lastExitCode, binary, initErr, crashed, last, build,
          runPc, runLog, pty>>

(***************************************************************************)
(* Go's strings package, on sequences of characters.                       *)
(***************************************************************************)

\* unicode.IsSpace, restricted to the characters of the model's alphabet
IsSpace(c) == c \in {" ", "\t", "\n", "\r"}

HasPrefix(s, p) == Len(p) <= Len(s) /\ SubSeq(s, 1, Len(p)) = p

RECURSIVE Split(_, _)
Split(s, sep) ==
    IF \A i \in 1..Len(s) : s[i] # sep
    THEN <<s>>
    ELSE LET i == CHOOSE i \in 1..Len(s) :
                      s[i] = sep /\ \A j \in 1..(i - 1) : s[j] # sep
         IN  <<SubSeq(s, 1, i - 1)>> \o Split(SubSeq(s, i + 1, Len(s)), sep)

RECURSIVE TrimRight(_, _)
TrimRight(s, cutset) ==
    IF s # <<>> /\ s[Len(s)] \in cutset
    THEN TrimRight(SubSeq(s, 1, Len(s) - 1), cutset)
    ELSE s

RECURSIVE TrimLeft(_, _)
TrimLeft(s, cutset) ==
    IF s # <<>> /\ s[1] \in cutset THEN TrimLeft(Tail(s), cutset) ELSE s

TrimSpace(s) == TrimLeft(TrimRight(s, {" ", "\t", "\n", "\r"}),
                         {" ", "\t", "\n", "\r"})

\* strings.Fields: the maximal runs of non-space characters
RECURSIVE Fields(_)
Fields(s) ==
    LET t == TrimLeft(s, {" ", "\t", "\n", "\r"})
    IN  IF t = <<>> THEN <<>>
        ELSE LET ends == {i \in 1..Len(t) : IsSpace(t[i])}
                 n == IF ends = {} THEN Len(t) + 1
                      ELSE CHOOSE i \in ends : \A j \in ends : i <= j
             IN  <<SubSeq(t, 1, n - 1)>> \o Fields(SubSeq(t, n, Len(t)))

RECURSIVE Join(_, _)
Join(words, sep) ==
    IF words = <<>> THEN <<>>
    ELSE IF Len(words) = 1 THEN words[1]
    ELSE words[1] \o sep \o Join(Tail(words), sep)

(***************************************************************************)
(* strconv.Atoi: an optional sign, then one or more decimal digits, and    *)
(* the value must fit Go's 64-bit int.                                     *)
(***************************************************************************)

Digit == {"0", "1", "2", "3", "4", "5", "6", "7", "8", "9"}

DigitVal(c) == CASE c = "0" -> 0 [] c = "1" -> 1 [] c = "2" -> 2
                 [] c = "3" -> 3 [] c = "4" -> 4 [] c = "5" -> 5
                 [] c = "6" -> 6 [] c = "7" -> 7 [] c = "8" -> 8
                 [] c = "9" -> 9

\* the decimal digits of math.MaxInt64 = 1<<63 - 1, and of its successor
MaxInt64Digits == <<"9", "2", "2", "3", "3", "7", "2", "0", "3", "6", "8",
                    "5", "4", "7", "7", "5", "8", "0", "7">>
MinInt64Digits == <<"9", "2", "2", "3", "3", "7", "2", "0", "3", "6", "8",
                    "5", "4", "7", "7", "5", "8", "0", "8">>

\* a <= b for digit strings of equal length
RECURSIVE DigitsLeq(_, _)
DigitsLeq(a, b) ==
    IF a = <<>> THEN TRUE
    ELSE IF DigitVal(a[1]) # DigitVal(b[1]) THEN DigitVal(a[1]) < DigitVal(b[1])
    ELSE DigitsLeq(Tail(a), Tail(b))

RECURSIVE DigitsValue(_, _)
DigitsValue(ds, acc) ==
    IF ds = <<>> THEN acc ELSE DigitsValue(Tail(ds), 10 * acc + DigitVal(ds[1]))

Atoi(s) ==
    LET signed == s # <<>> /\ s[1] \in {"+", "-"}
        neg    == s # <<>> /\ s[1] = "-"
        body   == IF signed THEN Tail(s) ELSE s
        syntax == body # <<>> /\ \A i \in 1..Len(body) : body[i] \in Digit
        sig    == TrimLeft(body, {"0"})
        limit  == IF neg THEN MinInt64Digits ELSE MaxInt64Digits
        range  == Len(sig) < Len(limit)
                  \/ (Len(sig) = Len(limit) /\ DigitsLeq(sig, limit))
    IN  IF syntax /\ range
        THEN [ok |-> TRUE,
              n  |-> IF neg THEN 0 - DigitsValue(sig, 0) ELSE DigitsValue(sig, 0)]
        ELSE [ok |-> FALSE, n |-> 0]

(***************************************************************************)
(* parseCompletions: the decoder of a __completeNoDesc response.           *)
(***************************************************************************)

\* lines[i] passes both tests of the scan loop: starts with ':' and the rest
\* is accepted by strconv.Atoi
IsDirectiveLine(line) ==
    /\ Len(line) # 0
    /\ line[1] = ":"
    /\ Atoi(Tail(line)).ok

\* parseCompletions scanning from the first line instead of from the end
parseCompletions_fromStart(output) ==
    LET lines == Split(TrimRight(output, {"\n"}), "\n")
        found == {i \in 1..Len(lines) : IsDirectiveLine(lines[i])}
    IN  IF found = {}
        THEN [candidates |-> <<>>, directive |-> 0, at |-> 0]
        ELSE LET i == CHOOSE i \in found : \A j \in found : i <= j
             IN  [candidates |-> SelectSeq(SubSeq(lines, 1, i - 1),
                                           LAMBDA c : c # <<>>),
                  directive  |-> Atoi(Tail(lines[i])).n,
                  at         |-> i]

\* parseCompletions(output): the candidates and the directive it returns, and
\* at, the number of the line its scan stopped at (0 when it found none)
parseCompletions(output) ==
    LET lines == Split(TrimRight(output, {"\n"}), "\n")
        found == {i \in 1..Len(lines) : IsDirectiveLine(lines[i])}
    IN  IF found = {}
        THEN [candidates |-> <<>>, directive |-> 0, at |-> 0]
        ELSE LET i == CHOOSE i \in found : \A j \in found : j <= i
             IN  [candidates |-> SelectSeq(SubSeq(lines, 1, i - 1),
                                           LAMBDA c : c # <<>>),
                  directive  |-> Atoi(Tail(lines[i])).n,
                  at         |-> i]

(***************************************************************************)
(* parseHelp: the heuristic parser of --help output.                       *)
(***************************************************************************)

HdrAvailableCommands == <<"A", "v", "a", "i", "l", "a", "b", "l", "e", " ",
                          "C", "o", "m", "m", "a", "n", "d", "s", ":">>
HdrCommands    == <<"C", "o", "m", "m", "a", "n", "d", "s", ":">>
HdrFlags       == <<"F", "l", "a", "g", "s", ":">>
HdrGlobalFlags == <<"G", "l", "o", "b", "a", "l", " ", "F", "l", "a", "g", "s", ":">>

\* headerSection taking every unindented line that ends in a colon for the
\* header of a command list
headerSection_anyColon(stripped) ==
    IF stripped[Len(stripped)] = ":" /\ ~HasPrefix(stripped, HdrFlags)
                                   /\ ~HasPrefix(stripped, HdrGlobalFlags)
    THEN "secCommands"
    ELSE IF HasPrefix(stripped, HdrFlags) \/ HasPrefix(stripped, HdrGlobalFlags)
    THEN "secFlags"
    ELSE "secNone"

\* the section an unindented line switches to
headerSection(stripped) ==
    IF HasPrefix(stripped, HdrAvailableCommands) \/ HasPrefix(stripped, HdrCommands)
    THEN "secCommands"
    ELSE IF HasPrefix(stripped, HdrFlags) \/ HasPrefix(stripped, HdrGlobalFlags)
    THEN "secFlags"
    ELSE "secNone"

\* the first field that starts with a dash, trimmed of trailing commas
RECURSIVE firstLongFlag_shortToo(_)
firstLongFlag_shortToo(fields) ==
    IF fields = <<>> THEN <<>>
    ELSE LET f == TrimRight(fields[1], {","})
         IN  IF HasPrefix(f, <<"-">>) THEN <<f>>
             ELSE firstLongFlag_shortToo(Tail(fields))

\* the first field that, trimmed of trailing commas, starts with "--"
RECURSIVE firstLongFlag(_)
firstLongFlag(fields) ==
    IF fields = <<>> THEN <<>>
    ELSE LET f == TrimRight(fields[1], {","})
         IN  IF HasPrefix(f, <<"-", "-">>) THEN <<f>>
             ELSE firstLongFlag(Tail(fields))

\* one iteration of parseHelp's loop over the lines: the section after the
\* line and the candidates the line appends
helpLine(cur, line) ==
    IF TrimSpace(line) = <<>>
    THEN [cur |-> "secNone", out |-> <<>>]
    ELSE LET stripped == TrimLeft(line, {" ", "\t"})
             indent   == Len(line) - Len(stripped)
         IN  IF indent = 0
             THEN [cur |-> headerSection(stripped), out |-> <<>>]
             ELSE [cur |-> cur,
                   out |-> CASE cur = "secCommands" ->
                                  IF Len(Fields(stripped)) > 0
                                  THEN <<Fields(stripped)[1]>> ELSE <<>>
                             [] cur = "secFlags" -> firstLongFlag(Fields(stripped))
                             [] OTHER -> <<>>]

RECURSIVE collectHelp(_, _)
collectHelp(lines, cur) ==
    IF lines = <<>> THEN <<>>
    ELSE LET r == helpLine(cur, lines[1])
         IN  r.out \o collectHelp(Tail(lines), r.cur)

\* the value of cur after each line of parseHelp's loop
RECURSIVE helpSections(_, _)
helpSections(lines, cur) ==
    IF lines = <<>> THEN <<>>
    ELSE LET r == helpLine(cur, lines[1])
         IN  <<r.cur>> \o helpSections(Tail(lines), r.cur)

\* parseHelp without its final prefix filter
parseHelp_unfiltered(output, toComplete) ==
    collectHelp(Split(output, "\n"), "secNone")

parseHelp(output, toComplete) ==
    LET candidates == collectHelp(Split(output, "\n"), "secNone")
    IN  IF toComplete = <<>> THEN candidates
        ELSE SelectSeq(candidates, LAMBDA c : HasPrefix(c, toComplete))

(***************************************************************************)
(* shlex.Split (github.com/google/shlex): the tokenizer both Do and         *)
(* execute call.  It is a character-class state machine; words are split   *)
(* at unquoted white space, '#' at the start of a word opens a comment up  *)
(* to the end of the line, and the input ending inside a quote or right    *)
(* after a backslash is an error.                                          *)
(***************************************************************************)

RECURSIVE shlexScan(_, _, _, _)
shlexScan(s, state, value, tokens) ==
    IF s = <<>>
    THEN CASE state = "start"   -> [tokens |-> tokens, err |-> FALSE]
           [] state = "inWord"  -> [tokens |-> Append(tokens, value), err |-> FALSE]
           [] state = "comment" -> [tokens |-> tokens, err |-> FALSE]
           [] OTHER             -> [tokens |-> tokens, err |-> TRUE]
    ELSE LET c == s[1]
             rest == Tail(s)
         IN  CASE state = "start" ->
                    IF c \in {" ", "\t", "\r", "\n"} THEN shlexScan(rest, "start", <<>>, tokens)
                    ELSE IF c = "\"" THEN shlexScan(rest, "quotingEscaping", <<>>, tokens)
                    ELSE IF c = "'" THEN shlexScan(rest, "quoting", <<>>, tokens)
                    ELSE IF c = "\\" THEN shlexScan(rest, "escaping", <<>>, tokens)
                    ELSE IF c = "#" THEN shlexScan(rest, "comment", <<>>, tokens)
                    ELSE shlexScan(rest, "inWord", <<c>>, tokens)
               [] state = "inWord" ->
                    IF c \in {" ", "\t", "\r", "\n"}
                    THEN shlexScan(rest, "start", <<>>, Append(tokens, value))
                    ELSE IF c = "\"" THEN shlexScan(rest, "quotingEscaping", value, tokens)
                    ELSE IF c = "'" THEN shlexScan(rest, "quoting", value, tokens)
                    ELSE IF c = "\\" THEN shlexScan(rest, "escaping", value, tokens)
                    ELSE shlexScan(rest, "inWord", Append(value, c), tokens)
               [] state = "escaping" ->
                    shlexScan(rest, "inWord", Append(value, c), tokens)
               [] state = "escapingQuoted" ->
                    shlexScan(rest, "quotingEscaping", Append(value, c), tokens)
               [] state = "quotingEscaping" ->
                    IF c = "\"" THEN shlexScan(rest, "inWord", value, tokens)
                    ELSE IF c = "\\" THEN shlexScan(rest, "escapingQuoted", value, tokens)
                    ELSE shlexScan(rest, "quotingEscaping", Append(value, c), tokens)
               [] state = "quoting" ->
                    IF c = "'" THEN shlexScan(rest, "inWord", value, tokens)
                    ELSE shlexScan(rest, "quoting", Append(value, c), tokens)
               [] state = "comment" ->
                    IF c = "\n" THEN shlexScan(rest, "start", <<>>, tokens)
                    ELSE shlexScan(rest, "comment", value, tokens)

shlexSplit(s) == shlexScan(s, "start", <<>>, <<>>)

(***************************************************************************)
(* Byte order of strings, as sort.Strings and Go's < on strings use it.    *)
(***************************************************************************)

\* the printable ASCII characters in code order, from 32 (space) to 126; the
\* backquote (96) cannot be written in a string here, a second "?" holds its
\* place and Code finds "?" at its first position, 63
Printable ==
    <<" ", "!", "\"", "#", "$", "%", "&", "'", "(", ")", "*", "+",
      ",", "-", ".", "/", "0", "1", "2", "3", "4", "5", "6", "7",
      "8", "9", ":", ";", "<", "=", ">", "?", "@", "A", "B", "C",
      "D", "E", "F", "G", "H", "I", "J", "K", "L", "M", "N", "O",
      "P", "Q", "R", "S", "T", "U", "V", "W", "X", "Y", "Z", "[",
      "\\", "]", "^", "_", "?", "a", "b", "c", "d", "e", "f", "g",
      "h", "i", "j", "k", "l", "m", "n", "o", "p", "q", "r", "s",
      "t", "u", "v", "w", "x", "y", "z", "{", "|", "}", "~">>

Code(c) == CASE c = "\t" -> 9 [] c = "\n" -> 10 [] c = "\r" -> 13
             [] OTHER -> 31 + (CHOOSE i \in 1..Len(Printable) :
                                    Printable[i] = c
                                    /\ \A j \in 1..(i - 1) : Printable[j] # c)

RECURSIVE StrLess(_, _)
StrLess(a, b) ==
    IF b = <<>> THEN FALSE
    ELSE IF a = <<>> THEN TRUE
    ELSE IF a[1] # b[1] THEN Code(a[1]) < Code(b[1])
    ELSE StrLess(Tail(a), Tail(b))

\* insert x at the front, whatever is there
InsertSorted_atFront(x, sorted) == <<x>> \o sorted

\* insert x into the ascending sequence sorted
RECURSIVE InsertSorted(_, _)
InsertSorted(x, sorted) ==
    IF sorted = <<>> THEN <<x>>
    ELSE IF StrLess(sorted[1], x) THEN <<sorted[1]>> \o InsertSorted(x, Tail(sorted))
    ELSE <<x>> \o sorted

RECURSIVE SortStrings(_)
SortStrings(strs) ==
    IF strs = <<>> THEN <<>> ELSE InsertSorted(strs[1], SortStrings(Tail(strs)))

(***************************************************************************)
(* The session environment layer (env.go).                                 *)
(***************************************************************************)

\* k + "=" + v
Pair(k, v) == k \o <<"=">> \o v

\* the orders in which `for k, v := range s.sessionEnv` may visit the map:
\* Go leaves the iteration order of a map unspecified
RangeOrders(m) ==
    {o \in [1..Cardinality(DOMAIN m) -> DOMAIN m] :
        \A i, j \in DOMAIN o : i # j => o[i] # o[j]}

\* SetEnv(key, value): the map after s.sessionEnv[key] = value
SetEnv(key, value) ==
    [k \in DOMAIN sessionEnv \cup {key} |->
        IF k = key THEN value ELSE sessionEnv[k]]

\* UnsetEnv(key): the map after delete(s.sessionEnv, key)
UnsetEnv(key) == [k \in DOMAIN sessionEnv \ {key} |-> sessionEnv[k]]

\* SessionEnv with the pairs in descending order
SessionEnv_descending ==
    LET o      == CHOOSE o \in RangeOrders(sessionEnv) : TRUE
        sorted == SortStrings([i \in DOMAIN o |-> Pair(o[i], sessionEnv[o[i]])])
    IN  [i \in 1..Len(sorted) |-> sorted[Len(sorted) + 1 - i]]

\* SessionEnv: the pairs of the map, sorted with sort.Strings
SessionEnv ==
    LET o == CHOOSE o \in RangeOrders(sessionEnv) : TRUE
    IN  SortStrings([i \in DOMAIN o |-> Pair(o[i], sessionEnv[o[i]])])

\* buildEnv with the session entries put first
buildEnv_sessionFirst(o) ==
    [i \in DOMAIN o |-> Pair(o[i], sessionEnv[o[i]])] \o (hostEnv \o cfg.Env)

\* buildEnv, when the range over the map visits the keys in the order o
buildEnv(o) ==
    (hostEnv \o cfg.Env) \o [i \in DOMAIN o |-> Pair(o[i], sessionEnv[o[i]])]

\* envBuiltinKeys: the part of each pair before its first "=" (strings.Cut);
\* a pair without "=" is dropped
RECURSIVE envBuiltinKeys(_)
envBuiltinKeys(pairs) ==
    IF pairs = <<>> THEN <<>>
    ELSE LET cut == Split(pairs[1], "=")
         IN  (IF Len(cut) > 1 THEN <<cut[1]>> ELSE <<>>)
             \o envBuiltinKeys(Tail(pairs))

(***************************************************************************)
(* The completion engine (completer.go, fallback.go).                      *)
(*                                                                         *)
(* What a child process does is an input: run.kind is "startErr" when      *)
(* the process could not be started, "timeout" when the context expired    *)
(* and the process was killed, "exit" when it exited with run.code;        *)
(* run.stdout is what it wrote to standard output before that.             *)
(***************************************************************************)

compDirectiveError == 1

S_completeNoDesc == <<"_", "_", "c", "o", "m", "p", "l", "e", "t", "e",
                      "N", "o", "D", "e", "s", "c">>
S_help  == <<"-", "-", "h", "e", "l", "p">>
S_list  == <<"l", "i", "s", "t">>
S_set   == <<"s", "e", "t">>
S_unset == <<"u", "n", "s", "e", "t">>

\* any non-zero directive taken as an error
HasBit_anyBit(d, bit) == d # 0

\* d & bit # 0, for Go's two's-complement int
HasBit(d, bit) == (d \div bit) % 2 = 1

\* only a non-zero exit status counted as a failure of cmd.Run()
RunFailed_exitStatusOnly(run) == run.kind = "exit" /\ run.code # 0

\* cmd.Run() returns a non-nil error
RunFailed(run) == run.kind # "exit" \/ run.code # 0

\* context.WithTimeout(..., cfg.CompletionTimeout) with exec.CommandContext:
\* a child that has not finished when the deadline passes is killed.  A run
\* of kind "timeout" is a child that would not finish by itself in time.
Killed(run) == run.kind = "timeout"

\* cmd.Run() returns only when its child has ended
Hung(children) ==
    \E i \in 1..Len(children) :
        children[i].run.kind = "timeout" /\ ~children[i].killed

\* tryComplete leaving an empty partial word out of the arguments
tryComplete_emptyWordOmitted(contextArgs, toComplete, run, o) ==
    LET args  == (<<S_completeNoDesc>> \o contextArgs)
                 \o (IF toComplete = <<>> THEN <<>> ELSE <<toComplete>>)
        child == [argv |-> args, env |-> buildEnv(o), run |-> run,
                  killed |-> Killed(run)]
    IN  IF run.kind # "exit" \/ run.code # 0
        THEN [candidates |-> <<>>, directive |-> 0, ok |-> FALSE, child |-> child]
        ELSE [candidates |-> parseCompletions(run.stdout).candidates,
              directive  |-> parseCompletions(run.stdout).directive,
              ok |-> TRUE, child |-> child]

\* cmd.Env of tryComplete: c.shell.buildEnv() in part_001,
\* append(os.Environ(), c.shell.cfg.Env...) in src/completer.go
tryCompleteEnv(o) ==
    IF build = "part_001" THEN buildEnv(o) ELSE hostEnv \o cfg.Env

tryComplete(contextArgs, toComplete, run, o) ==
    LET args  == (<<S_completeNoDesc>> \o contextArgs) \o <<toComplete>>
        child == [argv |-> args, env |-> tryCompleteEnv(o), run |-> run,
                  killed |-> Killed(run)]
    IN  IF RunFailed(run)
        THEN [candidates |-> <<>>, directive |-> 0, ok |-> FALSE, child |-> child]
        ELSE [candidates |-> parseCompletions(run.stdout).candidates,
              directive  |-> parseCompletions(run.stdout).directive,
              ok |-> TRUE, child |-> child]

\* helpFallback starting its child with exec.Command, under no deadline
helpFallback_noDeadline(contextArgs, toComplete, run) ==
    [candidates |-> parseHelp(run.stdout, toComplete),
     directive  |-> 0,
     child      |-> [argv |-> contextArgs \o <<S_help>>,
                     env  |-> hostEnv \o cfg.Env, run |-> run,
                     killed |-> FALSE]]

\* the error of cmd.Run() is dropped: what the child printed before it
\* ended, or was killed, is parsed
helpFallback(contextArgs, toComplete, run) ==
    [candidates |-> parseHelp(run.stdout, toComplete),
     directive  |-> 0,
     child      |-> [argv |-> contextArgs \o <<S_help>>,
                     env  |-> hostEnv \o cfg.Env, run |-> run,
                     killed |-> Killed(run)]]

complete(contextArgs, toComplete, protoRun, helpRun, o) ==
    LET t == tryComplete(contextArgs, toComplete, protoRun, o)
    IN  IF t.ok
        THEN [candidates |-> t.candidates, directive |-> t.directive,
              ok |-> TRUE, fallback |-> FALSE, children |-> <<t.child>>]
        ELSE LET h == helpFallback(contextArgs, toComplete, helpRun)
             IN  [candidates |-> h.candidates, directive |-> h.directive,
                  ok |-> FALSE, fallback |-> TRUE,
                  children |-> <<t.child, h.child>>]

\* the two revisions of completer.go in the repository
Builds == {"completer.go", "part_001"}

\* the last lines of Do in src/completer.go: result[i] = []rune(s)
fullWords(candidates, toComplete) ==
    [status  |-> "returned",
     newLine |-> candidates,
     length  |-> Len(toComplete)]

\* the last lines of Do and of doEnvBuiltin in part_001:
\* result[i] = []rune(s)[len(prefix):], which panics when a candidate has
\* fewer runes than the prefix
suffixes(candidates, toComplete) ==
    IF \E i \in 1..Len(candidates) : Len(candidates[i]) < Len(toComplete)
    THEN [status |-> "panic", newLine |-> <<>>, length |-> 0]
    ELSE [status  |-> "returned",
          newLine |-> [i \in 1..Len(candidates) |->
                         SubSeq(candidates[i], Len(toComplete) + 1,
                                Len(candidates[i]))],
          length  |-> Len(toComplete)]

doEnvBuiltin(subArgs, toComplete) ==
    LET candidates ==
            IF Len(subArgs) = 0
            THEN SelectSeq(<<S_list, S_set, S_unset>>,
                           LAMBDA name : HasPrefix(name, toComplete))
            ELSE IF subArgs[1] = S_unset /\ Len(subArgs) = 1
            THEN SelectSeq(envBuiltinKeys(SessionEnv),
                           LAMBDA key : HasPrefix(key, toComplete))
            ELSE <<>>
    IN  IF Len(candidates) = 0
        THEN [status |-> "returned", newLine |-> <<>>, length |-> 0,
              candidates |-> candidates]
        ELSE suffixes(candidates, toComplete) @@ [candidates |-> candidates]

\* Do going on with no tokens when the text before the cursor cannot be
\* tokenized
Do_splitErrorIgnored(line, pos, protoRun, helpRun, o) ==
    LET segment       == SubSeq(line, 1, pos)
        endsWithSpace == Len(segment) > 0
                         /\ (segment[Len(segment)] = " " \/ segment[Len(segment)] = "\t")
        split         == shlexSplit(segment)
        tokens        == IF split.err THEN <<>> ELSE split.tokens
        noPartial     == endsWithSpace \/ Len(tokens) = 0
        contextArgs   == IF noPartial THEN tokens
                         ELSE SubSeq(tokens, 1, Len(tokens) - 1)
        toComplete    == IF noPartial THEN <<>> ELSE tokens[Len(tokens)]
        base          == [op |-> "Do", line |-> line, pos |-> pos,
                          segment |-> segment, tokens |-> tokens,
                          contextArgs |-> contextArgs, toComplete |-> toComplete]
        none          == [ok |-> FALSE, fallback |-> FALSE, children |-> <<>>,
                          candidates |-> <<>>, directive |-> 0]
    IN  IF build = "part_001"
           /\ cfg.EnvBuiltin # <<>> /\ Len(contextArgs) >= 1
           /\ contextArgs[1] = cfg.EnvBuiltin
        THEN (base @@ [path |-> "builtin"])
             @@ doEnvBuiltin(Tail(contextArgs), toComplete) @@ none
        ELSE LET c == complete(contextArgs, toComplete, protoRun, helpRun, o)
             IN  (base @@ [path |-> "binary"]) @@ c @@
                 (IF Hung(c.children)
                  THEN [status |-> "hung", newLine |-> <<>>, length |-> 0]
                  ELSE IF HasBit(c.directive, compDirectiveError)
                          \/ Len(c.candidates) = 0
                  THEN [status |-> "returned", newLine |-> <<>>, length |-> 0]
                  ELSE IF build = "part_001"
                  THEN suffixes(c.candidates, toComplete)
                  ELSE fullWords(c.candidates, toComplete))

\* completer.Do(line, pos).  The record holds what Do returned (newLine,
\* length; newLine = <<>> is the nil result) and what it did on the way:
\* path is "parseError", "builtin" or "binary"; children are the processes
\* it ran, in order.
Do(line, pos, protoRun, helpRun, o) ==
    LET segment       == SubSeq(line, 1, pos)
        endsWithSpace == Len(segment) > 0
                         /\ (segment[Len(segment)] = " " \/ segment[Len(segment)] = "\t")
        split         == shlexSplit(segment)
        tokens        == split.tokens
        noPartial     == endsWithSpace \/ Len(tokens) = 0
        contextArgs   == IF noPartial THEN tokens
                         ELSE SubSeq(tokens, 1, Len(tokens) - 1)
        toComplete    == IF noPartial THEN <<>> ELSE tokens[Len(tokens)]
        base          == [op |-> "Do", line |-> line, pos |-> pos,
                          segment |-> segment, tokens |-> tokens,
                          contextArgs |-> contextArgs, toComplete |-> toComplete]
        none          == [ok |-> FALSE, fallback |-> FALSE, children |-> <<>>,
                          candidates |-> <<>>, directive |-> 0]
    IN  IF split.err
        THEN [op |-> "Do", line |-> line, pos |-> pos,
              segment |-> segment, tokens |-> <<>>,
              contextArgs |-> <<>>, toComplete |-> <<>>,
              path |-> "parseError", status |-> "returned",
              newLine |-> <<>>, length |-> 0] @@ none
        ELSE IF build = "part_001"
                /\ cfg.EnvBuiltin # <<>> /\ Len(contextArgs) >= 1
                /\ contextArgs[1] = cfg.EnvBuiltin
        THEN (base @@ [path |-> "builtin"])
             @@ doEnvBuiltin(Tail(contextArgs), toComplete) @@ none
        ELSE LET c == complete(contextArgs, toComplete, protoRun, helpRun, o)
             IN  (base @@ [path |-> "binary"]) @@ c @@
                 (IF Hung(c.children)
                  THEN [status |-> "hung", newLine |-> <<>>, length |-> 0]
                  ELSE IF HasBit(c.directive, compDirectiveError)
                          \/ Len(c.candidates) = 0
                  THEN [status |-> "returned", newLine |-> <<>>, length |-> 0]
                  ELSE IF build = "part_001"
                  THEN suffixes(c.candidates, toComplete)
                  ELSE fullWords(c.candidates, toComplete))

(***************************************************************************)
(* The command executor (shell.go, pty.go) and the env built-in (env.go).  *)
(*                                                                         *)
(* What execute does is recorded as the sequence of its effects, in        *)
(* order: text printed, hooks called, processes run.                       *)
(***************************************************************************)

S_pipe     == <<"|">>
S_dashH    == <<"-", "h">>
S_sh       == <<"s", "h">>
S_dashC    == <<"-", "c">>

\* hasPipe looking for the character "|" anywhere in a token
hasPipe_anywhere(tokens) ==
    \E i \in 1..Len(tokens) : \E j \in 1..Len(tokens[i]) : tokens[i][j] = "|"

hasPipe(tokens) == \E i \in 1..Len(tokens) : tokens[i] = S_pipe

\* leftOfFirstPipe: tokens[:i] for the first i whose token is "|"
leftOfFirstPipe(tokens) ==
    LET hits == {i \in 1..Len(tokens) : tokens[i] = S_pipe}
    IN  IF hits = {}
        THEN tokens
        ELSE SubSeq(tokens, 1, (CHOOSE i \in hits : \A j \in hits : i <= j) - 1)

IsHelpFlag(t) == t = S_help \/ t = S_dashH

\* handleEnvBuiltin taking the first arguments of set and unset and ignoring
\* the ones that follow
handleEnvBuiltin_laxArity(tokens) ==
    LET name      == cfg.EnvBuiltin
        sub       == tokens[2]
        rest      == SubSeq(tokens, 3, Len(tokens))
        wantsHelp == Len(rest) > 0 /\ IsHelpFlag(rest[1])
        same      == [handled |-> TRUE, env |-> sessionEnv]
    IN  IF name = <<>> \/ tokens[1] # name
        THEN [handled |-> FALSE, env |-> sessionEnv, events |-> <<>>]
        ELSE IF Len(tokens) < 2 \/ IsHelpFlag(tokens[2])
        THEN same @@ [events |-> <<[ev |-> "stdout", text |-> "help"]>>]
        ELSE IF sub = S_list
        THEN IF wantsHelp
             THEN same @@ [events |-> <<[ev |-> "stdout", text |-> "help list"]>>]
             ELSE same @@ [events |-> [i \in 1..Len(SessionEnv) |->
                                         [ev |-> "println", text |-> SessionEnv[i]]]]
        ELSE IF sub = S_set
        THEN IF wantsHelp
             THEN same @@ [events |-> <<[ev |-> "stdout", text |-> "help set"]>>]
             ELSE IF Len(tokens) < 4
             THEN same @@ [events |-> <<[ev |-> "stderr", text |-> "accepts 2 args",
                                         received |-> Len(rest)]>>]
             ELSE [handled |-> TRUE, events |-> <<>>,
                   env |-> SetEnv(tokens[3], tokens[4])]
        ELSE IF sub = S_unset
        THEN IF wantsHelp
             THEN same @@ [events |-> <<[ev |-> "stdout", text |-> "help unset"]>>]
             ELSE IF Len(tokens) < 3
             THEN same @@ [events |-> <<[ev |-> "stderr", text |-> "accepts 1 arg",
                                         received |-> Len(rest)]>>]
             ELSE [handled |-> TRUE, events |-> <<>>,
                   env |-> UnsetEnv(tokens[3])]
        ELSE same @@ [events |-> <<[ev |-> "stderr", text |-> "unknown command"]>>]

\* handleEnvBuiltin(tokens), for a non-empty token list: whether the line was
\* handled, what was printed, and the session map afterwards
handleEnvBuiltin(tokens) ==
    LET name      == cfg.EnvBuiltin
        sub       == tokens[2]
        rest      == SubSeq(tokens, 3, Len(tokens))
        wantsHelp == Len(rest) > 0 /\ IsHelpFlag(rest[1])
        same      == [handled |-> TRUE, env |-> sessionEnv]
    IN  IF name = <<>> \/ tokens[1] # name
        THEN [handled |-> FALSE, env |-> sessionEnv, events |-> <<>>]
        ELSE IF Len(tokens) < 2 \/ IsHelpFlag(tokens[2])
        THEN same @@ [events |-> <<[ev |-> "stdout", text |-> "help"]>>]
        ELSE IF sub = S_list
        THEN IF wantsHelp
             THEN same @@ [events |-> <<[ev |-> "stdout", text |-> "help list"]>>]
             ELSE same @@ [events |-> [i \in 1..Len(SessionEnv) |->
                                         [ev |-> "println", text |-> SessionEnv[i]]]]
        ELSE IF sub = S_set
        THEN IF wantsHelp
             THEN same @@ [events |-> <<[ev |-> "stdout", text |-> "help set"]>>]
             ELSE IF Len(tokens) # 4
             THEN same @@ [events |-> <<[ev |-> "stderr", text |-> "accepts 2 args",
                                         received |-> Len(rest)]>>]
             ELSE [handled |-> TRUE, events |-> <<>>,
                   env |-> SetEnv(tokens[3], tokens[4])]
        ELSE IF sub = S_unset
        THEN IF wantsHelp
             THEN same @@ [events |-> <<[ev |-> "stdout", text |-> "help unset"]>>]
             ELSE IF Len(tokens) # 3
             THEN same @@ [events |-> <<[ev |-> "stderr", text |-> "accepts 1 arg",
                                         received |-> Len(rest)]>>]
             ELSE [handled |-> TRUE, events |-> <<>>,
                   env |-> UnsetEnv(tokens[3])]
        ELSE same @@ [events |-> <<[ev |-> "stderr", text |-> "unknown command"]>>]

\* What a run does to the terminal and to the delivery of signals, as a list
\* of operations in the order they happen (deferred calls last, in reverse
\* order of their defer statements).

\* the terminal is in raw mode before operation i of ops
RawAt(ops, i) ==
    \E j \in 1..(i - 1) :
        ops[j] = "MakeRaw" /\ \A k \in (j + 1)..(i - 1) : ops[k] # "Restore"

\* SIGINT is routed to a channel of the parent before operation i of ops
ArmedAt(ops, i) ==
    \E j \in 1..(i - 1) :
        ops[j] = "Notify SIGINT" /\ \A k \in (j + 1)..(i - 1) : ops[k] # "Stop SIGINT"

\* the mode of the terminal after the operations
termMode(ops) == IF RawAt(ops, Len(ops) + 1) THEN "raw" ELSE "cooked"

\* Ctrl-C while the parent waits for the child: a terminal in raw mode hands
\* the byte on; otherwise SIGINT is sent to the shell's process group and,
\* unless signal.Notify routes it to a channel, the Go runtime ends the
\* process
interruptKills(ops) ==
    \E i \in 1..Len(ops) :
        ops[i] \in {"Run", "Wait"} /\ ~RawAt(ops, i) /\ ~ArmedAt(ops, i)

\* runPlain without the signal.Notify around cmd.Run
runPlain_notArmed(child) ==
    LET ops == <<"Run">> IN
    IF child.interrupt /\ interruptKills(ops)
    THEN [exitCode |-> 0, err |-> FALSE, mode |-> "plain", ops |-> ops, killed |-> TRUE]
    ELSE IF child.kind = "exit"
    THEN [exitCode |-> child.code, err |-> FALSE, mode |-> "plain", ops |-> ops,
          killed |-> FALSE]
    ELSE [exitCode |-> 0, err |-> TRUE, mode |-> "plain", ops |-> ops, killed |-> FALSE]

\* runPlain returning every error of cmd.Run, an exit status too
runPlain_exitIsError(child) ==
    LET ops == <<"Notify SIGINT", "Run", "Stop SIGINT">> IN
    IF child.kind = "exit" /\ child.code = 0
    THEN [exitCode |-> 0, err |-> FALSE, mode |-> "plain", ops |-> ops, killed |-> FALSE]
    ELSE [exitCode |-> 0, err |-> TRUE, mode |-> "plain", ops |-> ops, killed |-> FALSE]

\* runPlain: the child's exit status becomes the exit code, any other error of
\* cmd.Run is returned with exit code 0.  child.kind is "startErr" (the
\* process could not be started), "exit" (it exited with child.code; -1 when
\* a signal ended it) or "waitErr" (another error of waiting for it);
\* child.interrupt is whether Ctrl-C is pressed while the child runs.  killed
\* is whether that interrupt ends the shell process, in which case the call
\* never returns
runPlain(child) ==
    LET ops == <<"Notify SIGINT", "Run", "Stop SIGINT">> IN
    IF child.interrupt /\ interruptKills(ops)
    THEN [exitCode |-> 0, err |-> FALSE, mode |-> "plain", ops |-> ops, killed |-> TRUE]
    ELSE IF child.kind = "exit"
    THEN [exitCode |-> child.code, err |-> FALSE, mode |-> "plain", ops |-> ops,
          killed |-> FALSE]
    ELSE [exitCode |-> 0, err |-> TRUE, mode |-> "plain", ops |-> ops, killed |-> FALSE]

\* runWithPTY restoring the terminal only after a child that exited
runWithPTY_restoreOnExit(child, rawOK) ==
    LET start == <<"Notify SIGWINCH">>
        end   == <<"Stop SIGWINCH", "Close ptmx">>
    IN  IF ~rawOK
        THEN [exitCode |-> 0, err |-> TRUE, mode |-> "pty",
              ops |-> start \o <<"MakeRaw fails", "Wait">> \o end,
              killed |-> child.interrupt]
        ELSE IF child.kind = "exit"
        THEN [exitCode |-> child.code, err |-> FALSE, mode |-> "pty",
              ops |-> start \o <<"MakeRaw", "Copy", "Wait", "Restore">> \o end,
              killed |-> FALSE]
        ELSE [exitCode |-> 0, err |-> TRUE, mode |-> "pty",
              ops |-> start \o <<"MakeRaw", "Copy", "Wait">> \o end,
              killed |-> FALSE]

\* runWithPTY, for a child that pty.Start has started
runWithPTY(child, rawOK) ==
    LET start == <<"Notify SIGWINCH">>
        end   == <<"Stop SIGWINCH", "Close ptmx">>
        ops   == IF rawOK
                 THEN start \o <<"MakeRaw", "Copy", "Wait", "Restore">> \o end
                 ELSE start \o <<"MakeRaw fails", "Wait">> \o end
    IN  IF child.interrupt /\ interruptKills(ops)
        THEN [exitCode |-> 0, err |-> FALSE, mode |-> "pty", ops |-> ops, killed |-> TRUE]
        ELSE IF ~rawOK
        THEN [exitCode |-> 0, err |-> TRUE, mode |-> "pty", ops |-> ops, killed |-> FALSE]
        ELSE IF child.kind = "exit"
        THEN [exitCode |-> child.code, err |-> FALSE, mode |-> "pty", ops |-> ops,
              killed |-> FALSE]
        ELSE [exitCode |-> 0, err |-> TRUE, mode |-> "pty", ops |-> ops, killed |-> FALSE]

\* spawnCommand: sp.tty is term.IsTerminal(stdin), sp.ptyOK whether a PTY
\* could be allocated, sp.rawOK whether term.MakeRaw succeeds
spawnCommand(sp) ==
    IF sp.tty /\ sp.ptyOK /\ sp.child.kind # "startErr"
    THEN runWithPTY(sp.child, sp.rawOK)
    ELSE runPlain(sp.child)

\* the hooks around a command whose BeforeExec error is printed and not obeyed
hooked_vetoIgnored(args, proc, run, beforeErr) ==
    [events   |->
         (IF cfg.BeforeExec THEN <<[ev |-> "BeforeExec", args |-> args]>> ELSE <<>>)
         \o (IF cfg.BeforeExec /\ beforeErr
             THEN <<[ev |-> "stderr", text |-> "BeforeExec error"]>> ELSE <<>>)
         \o <<proc @@ [ev |-> "spawn", mode |-> run.mode, ops |-> run.ops,
                       killed |-> run.killed]>>
         \o (IF run.err THEN <<[ev |-> "stderr", text |-> "spawn error"]>> ELSE <<>>)
         \o (IF cfg.AfterExec
             THEN <<[ev |-> "AfterExec", args |-> args, exitCode |-> run.exitCode]>>
             ELSE <<>>),
     exitCode |-> run.exitCode]

\* the events of running one command between the hooks; args are the tokens
\* the hooks receive, proc what is run.  Nothing follows the spawn when the
\* shell process is ended while it waits for the child
hooked(args, proc, run, beforeErr) ==
    IF cfg.BeforeExec /\ beforeErr
    THEN [events   |-> <<[ev |-> "BeforeExec", args |-> args],
                         [ev |-> "stderr", text |-> "BeforeExec error"]>>,
          exitCode |-> lastExitCode]
    ELSE IF run.killed
    THEN [events   |->
              (IF cfg.BeforeExec THEN <<[ev |-> "BeforeExec", args |-> args]>> ELSE <<>>)
              \o <<proc @@ [ev |-> "spawn", mode |-> run.mode, ops |-> run.ops,
                            killed |-> TRUE]>>,
          exitCode |-> lastExitCode]
    ELSE [events   |->
              (IF cfg.BeforeExec THEN <<[ev |-> "BeforeExec", args |-> args]>> ELSE <<>>)
              \o <<proc @@ [ev |-> "spawn", mode |-> run.mode, ops |-> run.ops,
                            killed |-> FALSE]>>
              \o (IF run.err THEN <<[ev |-> "stderr", text |-> "spawn error"]>> ELSE <<>>)
              \o (IF cfg.AfterExec
                  THEN <<[ev |-> "AfterExec", args |-> args, exitCode |-> run.exitCode]>>
                  ELSE <<>>),
          exitCode |-> run.exitCode]

\* executePipeline running sh the way a direct command is run
executePipeline_spawnCommand(line, tokens, beforeErr, sp, o) ==
    hooked(leftOfFirstPipe(tokens),
           [path |-> S_sh,
            argv |-> <<S_dashC, (<<"'">> \o binary \o <<"'", " ">>) \o line>>,
            env  |-> buildEnv(o)],
           spawnCommand(sp), beforeErr)

\* executePipeline handing the hooks every token of the line
executePipeline_allTokens(line, tokens, beforeErr, sp, o) ==
    hooked(tokens,
           [path |-> S_sh,
            argv |-> <<S_dashC, (<<"'">> \o binary \o <<"'", " ">>) \o line>>,
            env  |-> buildEnv(o)],
           runPlain(sp.child), beforeErr)

executePipeline(line, tokens, beforeErr, sp, o) ==
    hooked(leftOfFirstPipe(tokens),
           [path |-> S_sh,
            argv |-> <<S_dashC, (<<"'">> \o binary \o <<"'", " ">>) \o line>>,
            env  |-> buildEnv(o)],
           runPlain(sp.child), beforeErr)

\* execute looking for a pipe before it looks for the env built-in
execute_pipelineFirst(line, beforeErr, sp, o) ==
    LET split  == shlexSplit(line)
        tokens == split.tokens
        base   == [op |-> "execute", line |-> line]
    IN  IF split.err
        THEN base @@ [path |-> "parseError", tokens |-> <<>>,
                      events |-> <<[ev |-> "stderr", text |-> "parse error"]>>,
                      exitCode |-> lastExitCode, env |-> sessionEnv]
        ELSE IF Len(tokens) = 0
        THEN base @@ [path |-> "empty", tokens |-> tokens, events |-> <<>>,
                      exitCode |-> lastExitCode, env |-> sessionEnv]
        ELSE IF hasPipe(tokens)
        THEN (base @@ [path |-> "pipeline", tokens |-> tokens, env |-> sessionEnv])
             @@ executePipeline(line, tokens, beforeErr, sp, o)
        ELSE IF handleEnvBuiltin(tokens).handled
        THEN base @@ [path |-> "builtin", tokens |-> tokens,
                      events |-> handleEnvBuiltin(tokens).events,
                      exitCode |-> lastExitCode,
                      env |-> handleEnvBuiltin(tokens).env]
        ELSE (base @@ [path |-> "direct", tokens |-> tokens, env |-> sessionEnv])
             @@ hooked(tokens,
                       [path |-> binary, argv |-> tokens, env |-> buildEnv(o)],
                       spawnCommand(sp), beforeErr)

\* Shell.execute(line)
execute(line, beforeErr, sp, o) ==
    LET split  == shlexSplit(line)
        tokens == split.tokens
        base   == [op |-> "execute", line |-> line]
    IN  IF split.err
        THEN base @@ [path |-> "parseError", tokens |-> <<>>,
                      events |-> <<[ev |-> "stderr", text |-> "parse error"]>>,
                      exitCode |-> lastExitCode, env |-> sessionEnv]
        ELSE IF Len(tokens) = 0
        THEN base @@ [path |-> "empty", tokens |-> tokens, events |-> <<>>,
                      exitCode |-> lastExitCode, env |-> sessionEnv]
        ELSE IF handleEnvBuiltin(tokens).handled
        THEN base @@ [path |-> "builtin", tokens |-> tokens,
                      events |-> handleEnvBuiltin(tokens).events,
                      exitCode |-> lastExitCode,
                      env |-> handleEnvBuiltin(tokens).env]
        ELSE IF hasPipe(tokens)
        THEN (base @@ [path |-> "pipeline", tokens |-> tokens, env |-> sessionEnv])
             @@ executePipeline(line, tokens, beforeErr, sp, o)
        ELSE (base @@ [path |-> "direct", tokens |-> tokens, env |-> sessionEnv])
             @@ hooked(tokens,
                       [path |-> binary, argv |-> tokens, env |-> buildEnv(o)],
                       spawnCommand(sp), beforeErr)

(***************************************************************************)
(* Inputs.  Words and lines the user types, what the wrapped binary        *)
(* answers, and the configurations a Shell is made with.                   *)
(***************************************************************************)

W_env   == <<"e", "n", "v">>
W_greet == <<"g", "r", "e", "e", "t">>
W_grep  == <<"g", "r", "e", "p">>
W_gr    == <<"g", "r">>
W_g     == <<"g">>
W_echo  == <<"e", "c", "h", "o">>
W_bogus == <<"b", "o", "g", "u", "s">>
W_name  == <<"-", "-", "n", "a", "m", "e">>

K_A  == <<"A">>
K_A1 == <<"A", "1">>
V_1  == <<"1">>
V_2  == <<"2", "=", "3">>

Keys   == {K_A, K_A1}
Values == {V_1, V_2}

\* a line is its words joined by single spaces
Line(words) == Join(words, <<" ">>)

\* exit codes a child can end with: 0..MaxExitCode, and -1 when a signal
\* ended it
MaxExitCode == 1
ExitCodes == (0..MaxExitCode) \cup {-1}

BinaryPath == <<"/", "b", "i", "n", "/", "a", "p", "p">>
HostEnv    == << <<"A", "=", "h">>, <<"P", "=", "h">> >>

\* the default configuration, and one with everything switched on
Configs ==
    { [Env |-> <<>>, EnvBuiltin |-> <<>>, BeforeExec |-> FALSE, AfterExec |-> FALSE],
      [Env |-> << <<"A", "=", "c">>, <<"A", "1", "=", "c">>, <<"Q", "=", "c">> >>,
       EnvBuiltin |-> W_env, BeforeExec |-> TRUE, AfterExec |-> TRUE] }

\* lines submitted to execute
ExecLines ==
    { Line(<<W_env, S_list>>),
      Line(<<W_env, S_set, K_A, V_1>>),
      Line(<<W_env, S_set, K_A1, V_2>>),
      Line(<<W_env, S_set, K_A>>),
      Line(<<W_env, S_unset, K_A>>),
      Line(<<W_env, S_unset>>),
      Line(<<W_env, S_set, K_A, V_1, V_1>>),
      Line(<<W_env, S_unset, K_A, K_A1>>),
      Line(<<W_env, W_bogus>>),
      Line(<<W_env, S_list, S_pipe, W_grep, K_A>>),
      Line(<<W_env, S_set, S_help>>),
      Line(<<W_greet>>),
      Line(<<W_echo, K_A, S_pipe, W_grep, K_A>>),
      Line(<<W_echo, K_A, S_pipe, W_grep, K_A, S_pipe, W_grep>>),
      Line(<<W_echo, <<"\"", "|", "\"">>, <<"a", "|", "b">> >>),
      <<"'", "g", "r">>,
      <<" ", "#", "x">> }

\* how a command's child process can go.  Ctrl-C is pressed in plain mode and
\* on a PTY in raw mode; there is no case of Ctrl-C on a terminal whose mode
\* could not be set: term.MakeRaw fails after term.IsTerminal succeeded only
\* on a terminal that is hung up or is not the shell's foreground terminal,
\* and such a terminal sends the shell no interrupt
SpawnCases ==
    {[tty |-> FALSE, ptyOK |-> FALSE, rawOK |-> FALSE, child |-> [kind |-> "exit", code |-> c, interrupt |-> FALSE]] :
        c \in ExitCodes}
    \cup
    {[tty |-> FALSE, ptyOK |-> FALSE, rawOK |-> FALSE, child |-> [kind |-> "startErr", code |-> 0, interrupt |-> FALSE]],
     [tty |-> TRUE, ptyOK |-> FALSE, rawOK |-> FALSE, child |-> [kind |-> "exit", code |-> 0, interrupt |-> FALSE]],
     [tty |-> TRUE, ptyOK |-> TRUE, rawOK |-> TRUE, child |-> [kind |-> "exit", code |-> 1, interrupt |-> FALSE]],
     [tty |-> TRUE, ptyOK |-> TRUE, rawOK |-> TRUE, child |-> [kind |-> "waitErr", code |-> 0, interrupt |-> FALSE]],
     [tty |-> TRUE, ptyOK |-> TRUE, rawOK |-> FALSE, child |-> [kind |-> "exit", code |-> 0, interrupt |-> FALSE]],
     [tty |-> TRUE, ptyOK |-> TRUE, rawOK |-> FALSE, child |-> [kind |-> "exit", code |-> 1, interrupt |-> FALSE]],
     [tty |-> TRUE, ptyOK |-> TRUE, rawOK |-> TRUE, child |-> [kind |-> "exit", code |-> 0, interrupt |-> FALSE]],
     [tty |-> FALSE, ptyOK |-> FALSE, rawOK |-> FALSE, child |-> [kind |-> "exit", code |-> -1, interrupt |-> TRUE]],
     [tty |-> FALSE, ptyOK |-> FALSE, rawOK |-> FALSE, child |-> [kind |-> "exit", code |-> 0, interrupt |-> TRUE]],
     [tty |-> TRUE, ptyOK |-> TRUE, rawOK |-> TRUE, child |-> [kind |-> "exit", code |-> -1, interrupt |-> TRUE]]}

\* the lines and the children of a session: the env built-in's commands, a
\* direct command and a pipeline; a child in plain mode
RunLines ==
    { Line(<<W_env, S_list>>),
      Line(<<W_env, S_set, K_A, V_1>>),
      Line(<<W_env, S_set, K_A1, V_2>>),
      Line(<<W_env, S_unset, K_A>>),
      Line(<<W_greet>>),
      Line(<<W_echo, K_A, S_pipe, W_grep, K_A>>),
      <<"'", "g", "r">> }

RunSpawns ==
    {[tty |-> FALSE, ptyOK |-> FALSE, rawOK |-> FALSE, child |-> [kind |-> "exit", code |-> c, interrupt |-> FALSE]] :
        c \in 0..MaxExitCode}
    \cup
    {[tty |-> FALSE, ptyOK |-> FALSE, rawOK |-> FALSE, child |-> [kind |-> "startErr", code |-> 0, interrupt |-> FALSE]]}

\* lines completed in the middle of a session, the cursor at the end
TabLines ==
    { W_gr,
      Line(<<W_env, S_unset, <<>> >>),
      <<"g", "r", " ", "\"", "e">> }

\* "greet\n:4\n", the answer to completing "gr"
OutGreet == W_greet \o <<"\n", ":", "4", "\n">>

\* a --help output with one command and one flag
HelpSmall ==
    HdrAvailableCommands \o <<"\n", " ", " ">> \o W_greet \o <<" ", " ", "S", "a", "y", "\n", "\n">>
    \o HdrFlags \o <<"\n", " ", " ", "-", "n", ",", " ">> \o W_name \o <<" ", "s", "\n">>

TabProtoRuns ==
    { [kind |-> "startErr", code |-> 0, stdout |-> <<>>],
      [kind |-> "timeout", code |-> 0, stdout |-> <<>>],
      [kind |-> "exit", code |-> 1, stdout |-> <<>>],
      [kind |-> "exit", code |-> 0, stdout |-> OutGreet] }

TabHelpRuns ==
    { [kind |-> "exit", code |-> 0, stdout |-> HelpSmall],
      [kind |-> "timeout", code |-> 0, stdout |-> <<>>] }

(***************************************************************************)
(* The shell as a state machine: New, then any sequence of calls of its    *)
(* methods, submitted lines and Tab presses.                               *)
(***************************************************************************)

\* New(cfg): a Shell whose binary resolved, or one that carries the deferred
\* error and has no session map
Init ==
    /\ cfg \in Configs
    /\ hostEnv = HostEnv
    /\ sessionEnv = <<>>
    /\ lastExitCode = 0
    /\ initErr \in BOOLEAN
    /\ binary = IF initErr THEN <<>> ELSE BinaryPath
    /\ crashed = FALSE
    /\ build \in Builds
    /\ last = [op |-> "New"]
    /\ runPc = "idle" /\ runLog = <<>>
    /\ pty = [pc |-> "idle"]

\* SetEnv also exporting the variable with os.Setenv
SetEnvCall_osSetenv ==
    /\ ~crashed
    /\ \E k \in Keys, v \in Values :
          IF initErr
          THEN /\ crashed' = TRUE
               /\ last' = [op |-> "SetEnv", key |-> k, value |-> v, status |-> "panic"]
               /\ UNCHANGED <<sessionEnv, hostEnv>>
          ELSE /\ sessionEnv' = SetEnv(k, v)
               /\ hostEnv' = hostEnv \o <<Pair(k, v)>>
               /\ last' = [op |-> "SetEnv", key |-> k, value |-> v, status |-> "returned"]
               /\ UNCHANGED crashed
    /\ UNCHANGED <<pty, runPc, runLog, build, cfg, lastExitCode, binary, initErr>>

\* a call of Shell.SetEnv: an assignment to an entry of a nil map panics
SetEnvCall ==
    /\ ~crashed
    /\ \E k \in Keys, v \in Values :
          IF initErr
          THEN /\ crashed' = TRUE
               /\ last' = [op |-> "SetEnv", key |-> k, value |-> v, status |-> "panic"]
               /\ UNCHANGED sessionEnv
          ELSE /\ sessionEnv' = SetEnv(k, v)
               /\ last' = [op |-> "SetEnv", key |-> k, value |-> v, status |-> "returned"]
               /\ UNCHANGED crashed
    /\ UNCHANGED <<pty, runPc, runLog, build, cfg, hostEnv, lastExitCode, binary, initErr>>

\* a call of Shell.UnsetEnv
UnsetEnvCall ==
    /\ ~crashed
    /\ \E k \in Keys :
          /\ sessionEnv' = UnsetEnv(k)
          /\ last' = [op |-> "UnsetEnv", key |-> k, status |-> "returned"]
    /\ UNCHANGED <<pty, runPc, runLog, build, cfg, hostEnv, lastExitCode, binary, initErr, crashed>>

\* a call of Shell.SessionEnv
SessionEnvCall ==
    /\ ~crashed
    /\ last' = [op |-> "SessionEnv", pairs |-> SessionEnv, status |-> "returned"]
    /\ UNCHANGED <<pty, runPc, runLog, build, cfg, hostEnv, sessionEnv, lastExitCode, binary, initErr, crashed>>

\* the inputs that can change what execute(line) does: a line that stops
\* before the hooks (parse error, no token, the env built-in) has none
SpawnInputs(line, spawns) ==
    IF execute(line, FALSE, CHOOSE sp \in spawns : TRUE, <<>>).path
          \in {"direct", "pipeline"}
    THEN {[beforeErr |-> FALSE, sp |-> sp, o |-> o] :
             sp \in spawns, o \in RangeOrders(sessionEnv)}
         \cup
         (IF cfg.BeforeExec
          THEN {[beforeErr |-> TRUE, sp |-> CHOOSE sp \in spawns : TRUE, o |-> <<>>]}
          ELSE {})
    ELSE {[beforeErr |-> FALSE, sp |-> CHOOSE sp \in spawns : TRUE, o |-> <<>>]}

\* the shell process was ended while it waited for a child
ShellKilled(events) ==
    \E i \in 1..Len(events) : events[i].ev = "spawn" /\ events[i].killed

\* the loop of Run hands a submitted line to execute
Execute ==
    /\ ~crashed /\ ~initErr
    /\ \E line \in RunLines :
          \E in \in SpawnInputs(line, RunSpawns) :
              /\ last' = execute(line, in.beforeErr, in.sp, in.o)
              /\ sessionEnv' = last'.env
              /\ lastExitCode' = last'.exitCode
              /\ crashed' = ShellKilled(last'.events)
    /\ UNCHANGED <<pty, runPc, runLog, build, cfg, hostEnv, binary, initErr>>

\* the inputs that can change what Do(line, pos) does: a segment that is
\* answered without the binary has none
ChildInputs(line, pos, protoRuns, helpRuns) ==
    IF Do(line, pos, CHOOSE r \in protoRuns : TRUE, CHOOSE r \in helpRuns : TRUE,
          <<>>).path = "binary"
    THEN UNION {{[protoRun |-> pr, helpRun |-> hr, o |-> o] :
                    o \in RangeOrders(sessionEnv),
                    hr \in (IF RunFailed(pr) THEN helpRuns
                                             ELSE {CHOOSE r \in helpRuns : TRUE})} :
                pr \in protoRuns}
    ELSE {[protoRun |-> CHOOSE r \in protoRuns : TRUE,
           helpRun  |-> CHOOSE r \in helpRuns : TRUE, o |-> <<>>]}

\* a Tab press: the line editor calls completer.Do
Tab ==
    /\ ~crashed /\ ~initErr
    /\ \E line \in TabLines :
          \E in \in ChildInputs(line, Len(line), TabProtoRuns, TabHelpRuns) :
              /\ last' = Do(line, Len(line), in.protoRun, in.helpRun, in.o)
              /\ crashed' = (last'.status = "panic")
    /\ UNCHANGED <<pty, runPc, runLog, build, cfg, hostEnv, sessionEnv, lastExitCode, binary, initErr>>

Next == SetEnvCall \/ UnsetEnvCall \/ SessionEnvCall \/ Execute \/ Tab

Spec == Init /\ [][Next]_vars

(***************************************************************************)
(* parseCompletions on its own: every output of at most MaxOutLen          *)
(* characters over OutAlphabet, and some longer ones.                      *)
(***************************************************************************)

MaxOutLen == 5
OutAlphabet == {"a", ":", "1", "2", "-", "\n"}

OutSamples ==
    { OutGreet,
      W_greet \o <<"\n", "\n">> \o W_grep \o <<"\n", ":", "0", "0", "6", "\n", "\n">>,
      W_greet \o <<"\n", ":", "+", "4", "\n">>,
      W_greet \o <<"\n", ":", "4", "x", "\n">>,
      W_greet \o <<"\n", ":">> \o MinInt64Digits \o <<"\n">>,
      W_greet \o <<"\n", ":", "2", "\n", ":">> \o MinInt64Digits,
      <<"d", "e", "b", "u", "g", "\n">> \o W_greet \o <<"\n", ":", "4", "\n", "x", "\n">> }

Outputs == UNION {[1..n -> OutAlphabet] : n \in 0..MaxOutLen} \cup OutSamples

\* a Shell made with the default configuration, nothing set
FreshShell ==
    /\ cfg = [Env |-> <<>>, EnvBuiltin |-> <<>>, BeforeExec |-> FALSE, AfterExec |-> FALSE]
    /\ hostEnv = HostEnv
    /\ sessionEnv = <<>>
    /\ lastExitCode = 0
    /\ initErr = FALSE
    /\ binary = BinaryPath
    /\ crashed = FALSE
    /\ build = "part_001"
    /\ runPc = "idle" /\ runLog = <<>>
    /\ pty = [pc |-> "idle"]

InitParseCompletions ==
    /\ FreshShell
    /\ last \in {[op |-> "input", output |-> o] : o \in Outputs}

ParseCompletionsCall ==
    /\ last.op = "input"
    /\ last' = [op |-> "parseCompletions", output |-> last.output]
                 @@ parseCompletions(last.output)
    /\ UNCHANGED <<pty, runPc, runLog, build, cfg, hostEnv, sessionEnv, lastExitCode, binary, initErr, crashed>>

NextParseCompletions == ParseCompletionsCall

SpecParseCompletions == InitParseCompletions /\ [][NextParseCompletions]_vars

(***************************************************************************)
(* parseHelp on its own: every text of at most MaxHelpLines lines drawn    *)
(* from HelpLines, with every partial word of PartialWords.                *)
(***************************************************************************)

MaxHelpLines == 3

HelpLines ==
    { HdrAvailableCommands,
      HdrCommands,
      HdrFlags,
      HdrGlobalFlags,
      <<>>,
      <<" ", " ">> \o W_greet \o <<" ", " ", "S", "a", "y">>,
      <<"\t">> \o W_grep,
      <<" ", " ", "-", "n", ",", " ">> \o W_name \o <<" ", "s">>,
      <<" ", " ", "-", "-", "g", ",">>,
      <<" ", "-", "g">>,
      <<"U", "s", "a", "g", "e", ":">>,
      <<" ">> \o HdrFlags,
      HdrCommands \o <<" ", "x">>,
      <<"f", "l", "a", "g", "s", ":">> }

PartialWords == {<<>>, W_g, W_gr, <<"-", "-">>, <<"-", "-", "n">>, <<"x">>}

HelpTexts ==
    {Join(ls, <<"\n">>) : ls \in UNION {[1..n -> HelpLines] : n \in 0..MaxHelpLines}}

InitParseHelp ==
    /\ FreshShell
    /\ last \in {[op |-> "input", output |-> h, toComplete |-> p] :
                    h \in HelpTexts, p \in PartialWords}

ParseHelpCall ==
    /\ last.op = "input"
    /\ last' = [op |-> "parseHelp", output |-> last.output,
                toComplete |-> last.toComplete,
                lines |-> Split(last.output, "\n"),
                sections |-> helpSections(Split(last.output, "\n"), "secNone"),
                candidates |-> parseHelp(last.output, last.toComplete)]
    /\ UNCHANGED <<pty, runPc, runLog, build, cfg, hostEnv, sessionEnv, lastExitCode, binary, initErr, crashed>>

NextParseHelp == ParseHelpCall

SpecParseHelp == InitParseHelp /\ [][NextParseHelp]_vars

(***************************************************************************)
(* completer.Do on its own: every cursor position of the lines of          *)
(* DoLines, against every answer of the binary in ProtoRuns and HelpRuns.  *)
(***************************************************************************)

MaxCandLines == 2

\* candidate lines the binary may print: "g" is shorter than the partial
\* word "gr", the empty line is skipped by the decoder
CandLines == {W_greet, W_grep, W_g, <<>>}

DirectiveLines == {<<":", "0">>, <<":", "1">>, <<":", "4">>, <<":", "3", "8">>, <<"o", "k">>}

ProtoStdouts ==
    {Join(cs \o <<d>>, <<"\n">>) \o <<"\n">> :
        cs \in UNION {[1..n -> CandLines] : n \in 0..MaxCandLines},
        d \in DirectiveLines}

ProtoRuns ==
    {[kind |-> "exit", code |-> 0, stdout |-> out] : out \in ProtoStdouts}
    \cup
    { [kind |-> "startErr", code |-> 0, stdout |-> <<>>],
      [kind |-> "timeout", code |-> 0, stdout |-> W_greet \o <<"\n">>],
      [kind |-> "exit", code |-> 1, stdout |-> OutGreet],
      [kind |-> "exit", code |-> -1, stdout |-> <<>>] }

\* a --help output with two commands and two flags
HelpTwo ==
    HdrCommands \o <<"\n", "\t">> \o W_grep \o <<"\n", " ">> \o W_greet \o <<"\n", "\n">>
    \o HdrGlobalFlags \o <<"\n", " ", "-", "-", "g", ",", " ", "-", "g", "\n", " ">>
    \o W_name \o <<"\n">>

HelpRuns ==
    { [kind |-> "exit", code |-> 0, stdout |-> HelpSmall],
      [kind |-> "exit", code |-> 1, stdout |-> HelpTwo],
      [kind |-> "timeout", code |-> 0, stdout |-> <<>>] }

DoLines ==
    { W_gr,
      <<"-", "-", "g">>,
      Line(<<W_greet, <<>> >>),
      Line(<<W_env, S_unset, <<>> >>),
      Line(<<W_env, <<"u", "n">> >>),
      Line(<<W_env, S_unset, K_A1>>),
      Line(<<W_env, S_set, <<>> >>),
      Line(<<W_echo, K_A, S_pipe, W_gr>>),
      Line(<<W_echo, K_A, S_pipe, W_grep, K_A, S_pipe, W_gr>>),
      <<"g", "\\", " ", "'", "r", " ", "'", "\t">>,
      <<"\"", "g", "\"", " ", "#", " ", "g">> }

SessionSamples == {<<>>, [k \in Keys |-> IF k = K_A THEN V_1 ELSE V_2]}

InitDo ==
    /\ cfg \in Configs
    /\ hostEnv = HostEnv
    /\ sessionEnv \in SessionSamples
    /\ lastExitCode = 0
    /\ initErr = FALSE
    /\ binary = BinaryPath
    /\ crashed = FALSE
    /\ build \in Builds
    /\ runPc = "idle" /\ runLog = <<>>
    /\ pty = [pc |-> "idle"]
    /\ \E l \in DoLines :
          \E n \in 0..Len(l) :
              \E in \in ChildInputs(l, n, ProtoRuns, HelpRuns) :
                  last = [op |-> "input", line |-> l, pos |-> n] @@ in

DoCall ==
    /\ last.op = "input"
    /\ last' = Do(last.line, last.pos, last.protoRun, last.helpRun, last.o)
    /\ crashed' = (last'.status = "panic")
    /\ UNCHANGED <<pty, runPc, runLog, build, cfg, hostEnv, sessionEnv, lastExitCode, binary, initErr>>

NextDo == DoCall

SpecDo == InitDo /\ [][NextDo]_vars

(***************************************************************************)
(* Shell.execute on its own: every line of ExecLines, in every session of  *)
(* SessionSamples, with every way of SpawnCases the child can go.          *)
(***************************************************************************)

\* the configurations of Configs, and two with one hook each
ExecConfigs ==
    Configs \cup
    { [Env |-> <<>>, EnvBuiltin |-> <<>>, BeforeExec |-> TRUE, AfterExec |-> FALSE],
      [Env |-> <<>>, EnvBuiltin |-> W_env, BeforeExec |-> FALSE, AfterExec |-> TRUE] }

InitExecute ==
    /\ cfg \in ExecConfigs
    /\ hostEnv = HostEnv
    /\ sessionEnv \in SessionSamples
    /\ lastExitCode \in ExitCodes
    /\ initErr = FALSE
    /\ binary = BinaryPath
    /\ crashed = FALSE
    /\ build = "part_001"
    /\ runPc = "idle" /\ runLog = <<>>
    /\ pty = [pc |-> "idle"]
    /\ \E l \in ExecLines :
          \E in \in SpawnInputs(l, SpawnCases) :
              last = [op |-> "input", line |-> l] @@ in

\* the result keeps whether stdin was a terminal on which a PTY could be made
\* and whether Ctrl-C was pressed while the child ran
ExecuteCall ==
    /\ last.op = "input"
    /\ last' = execute(last.line, last.beforeErr, last.sp, last.o)
                  @@ [ptyAvailable |-> last.sp.tty /\ last.sp.ptyOK,
                      interrupted  |-> last.sp.child.interrupt]
    /\ sessionEnv' = last'.env
    /\ lastExitCode' = last'.exitCode
    /\ crashed' = ShellKilled(last'.events)
    /\ UNCHANGED <<pty, runPc, runLog, build, cfg, hostEnv, binary, initErr>>

NextExecute == ExecuteCall

SpecExecute == InitExecute /\ [][NextExecute]_vars

(***************************************************************************)
(* hasPipe and leftOfFirstPipe as functions of the token list: every list  *)
(* of at most MaxTokens tokens of PipeTokens.                              *)
(***************************************************************************)

MaxTokens == 4

\* a word, the pipe alone, a pipe fused to text, two pipes, the empty token
PipeTokens == {<<"a">>, S_pipe, <<"a", "|", "b">>, <<"|", "|">>, <<>>}

TokenLists == UNION {[1..n -> PipeTokens] : n \in 0..MaxTokens}

InitPipe ==
    /\ FreshShell
    /\ \E t \in TokenLists : last = [op |-> "input", tokens |-> t]

PipeCall ==
    /\ last.op = "input"
    /\ last' = [op |-> "pipe", tokens |-> last.tokens,
                has |-> hasPipe(last.tokens),
                left |-> leftOfFirstPipe(last.tokens)]
    /\ UNCHANGED <<pty, runPc, runLog, build, cfg, hostEnv, sessionEnv, lastExitCode, binary, initErr, crashed>>

NextPipe == PipeCall

SpecPipe == InitPipe /\ [][NextPipe]_vars

(***************************************************************************)
(* Shell.SessionEnv on its own: every session over SortKeys, among them    *)
(* keys of which one is the beginning of another.                          *)
(***************************************************************************)

K_AB == <<"A", "B">>
K_B  == <<"B">>

SortKeys == {K_A, K_A1, K_AB, K_B}

InitSessionEnv ==
    /\ cfg = [Env |-> <<>>, EnvBuiltin |-> <<>>, BeforeExec |-> FALSE, AfterExec |-> FALSE]
    /\ hostEnv = HostEnv
    /\ sessionEnv \in UNION {[D -> Values] : D \in SUBSET SortKeys}
    /\ lastExitCode = 0
    /\ initErr = FALSE
    /\ binary = BinaryPath
    /\ crashed = FALSE
    /\ build = "part_001"
    /\ runPc = "idle" /\ runLog = <<>>
    /\ pty = [pc |-> "idle"]
    /\ last = [op |-> "New"]

NextSessionEnv == SessionEnvCall

SpecSessionEnv == InitSessionEnv /\ [][NextSessionEnv]_vars

(***************************************************************************)
(* Shell.Run: New resolves the binary, Run initialises the line editor and *)
(* then loops: one Readline per step, at most MaxReads of them.            *)
(***************************************************************************)

S_exit == <<"e", "x", "i", "t">>

\* resolveBinary(path): ok is what the platform answers, exec.LookPath for a
\* bare name and os.Getwd (inside filepath.Abs) for a relative path
resolveBinary(path, ok) ==
    IF path = <<>> THEN [err |-> TRUE, path |-> <<>>]
    ELSE IF \E i \in 1..Len(path) : path[i] = "/"
    THEN IF path[1] = "/" THEN [err |-> FALSE, path |-> path]
         ELSE IF ok THEN [err |-> FALSE, path |-> <<"/", "w", "d", "/">> \o path]
         ELSE [err |-> TRUE, path |-> <<>>]
    ELSE IF ok THEN [err |-> FALSE, path |-> <<"/", "b", "i", "n", "/">> \o path]
    ELSE [err |-> TRUE, path |-> <<>>]

\* Run initialising the line editor before it looks at the stored error
runStart_lateInitCheck(rlOK) ==
    LET prompt == IF cfg.DynamicPrompt
                  THEN <<[ev |-> "DynamicPrompt", code |-> 0]>> ELSE <<>>
    IN  IF ~rlOK
        THEN [pc  |-> "returned",
              log |-> prompt \o <<[ev |-> "NewEx", ok |-> FALSE],
                                  [ev |-> "return", err |-> "readline init"]>>]
        ELSE IF initErr
        THEN [pc  |-> "returned",
              log |-> prompt \o <<[ev |-> "NewEx", ok |-> TRUE], [ev |-> "Close"],
                                  [ev |-> "return", err |-> "init"]>>]
        ELSE [pc  |-> "reading",
              log |-> prompt \o <<[ev |-> "NewEx", ok |-> TRUE]>>
                      \o (IF cfg.OnStart THEN <<[ev |-> "OnStart"]>> ELSE <<>>)]

\* Run up to its loop.  rlOK is whether readline.NewEx succeeds
runStart(rlOK) ==
    IF initErr
    THEN [pc |-> "returned", log |-> <<[ev |-> "return", err |-> "init"]>>]
    ELSE LET prompt == IF cfg.DynamicPrompt
                       THEN <<[ev |-> "DynamicPrompt", code |-> 0]>> ELSE <<>>
         IN  IF ~rlOK
             THEN [pc  |-> "returned",
                   log |-> prompt \o <<[ev |-> "NewEx", ok |-> FALSE],
                                       [ev |-> "return", err |-> "readline init"]>>]
             ELSE [pc  |-> "reading",
                   log |-> prompt \o <<[ev |-> "NewEx", ok |-> TRUE]>>
                           \o (IF cfg.OnStart THEN <<[ev |-> "OnStart"]>> ELSE <<>>)]

\* the loop treating an interrupt at the prompt as any other error of Readline
readlineBranch_interruptEnds(r) ==
    IF r.err = "EOF" THEN "break"
    ELSE IF r.err # "none" THEN "return"
    ELSE IF TrimSpace(r.line) = <<>> THEN "continue"
    ELSE IF TrimSpace(r.line) = S_exit THEN "break"
    ELSE "execute"

\* what the loop does with what Readline returned: r.err is "none", "EOF"
\* (io.EOF), "interrupt" (readline.ErrInterrupt) or "other"
readlineBranch(r) ==
    IF r.err = "EOF" THEN "break"
    ELSE IF r.err = "interrupt" THEN "continue"
    ELSE IF r.err # "none" THEN "return"
    ELSE IF TrimSpace(r.line) = <<>> THEN "continue"
    ELSE IF TrimSpace(r.line) = S_exit THEN "break"
    ELSE "execute"

\* Run calling OnExit on every way out of the loop
loopExit_onExitAlways(branch) ==
    (IF cfg.OnExit THEN <<[ev |-> "OnExit"]>> ELSE <<>>)
    \o <<[ev |-> "Close"],
         [ev |-> "return", err |-> (IF branch = "break" THEN "nil" ELSE "readline")]>>

\* how Run ends: after a break OnExit and return nil, otherwise the error of
\* Readline; the deferred rl.Close runs in both cases
loopExit(branch) ==
    IF branch = "break"
    THEN (IF cfg.OnExit THEN <<[ev |-> "OnExit"]>> ELSE <<>>)
         \o <<[ev |-> "Close"], [ev |-> "return", err |-> "nil"]>>
    ELSE <<[ev |-> "Close"], [ev |-> "return", err |-> "readline"]>>

MaxReads == 3

\* the number of Readline calls so far
Reads(log) == Cardinality({i \in 1..Len(log) : log[i].ev = "Readline"})

\* the empty path, a bare name, a relative path, an absolute path, and an
\* absolute path with a single quote in a directory name
BinaryPaths ==
    {<<>>, <<"a", "p", "p">>, <<".", "/", "a", "p", "p">>, BinaryPath,
     <<"/", "o", "'", "b", "/", "a", "p", "p">>}

RunConfigs ==
    {[Env |-> <<>>, EnvBuiltin |-> W_env, BeforeExec |-> TRUE, AfterExec |-> TRUE,
      DynamicPrompt |-> d, OnStart |-> a, OnExit |-> b] : a, b, d \in BOOLEAN}

\* a command, a pipeline, a line with an unbalanced quote, a built-in usage
\* error, exit, exit between blanks, a blank line, the empty line
RunLoopLines ==
    { W_greet,
      Line(<<W_greet, S_pipe, W_grep>>),
      <<"'", "g", "r">>,
      Line(<<W_env, W_bogus>>),
      S_exit,
      <<" ">> \o S_exit \o <<" ">>,
      <<" ", "\t">>,
      <<>> }

ReadResults ==
    {[err |-> e, line |-> <<>>] : e \in {"EOF", "interrupt", "other"}}
    \cup {[err |-> "none", line |-> l] : l \in RunLoopLines}

RunLoopSpawns ==
    {[tty |-> FALSE, ptyOK |-> FALSE, rawOK |-> FALSE, child |-> [kind |-> "exit", code |-> c, interrupt |-> FALSE]] :
        c \in 0..1}
    \cup
    {[tty |-> FALSE, ptyOK |-> FALSE, rawOK |-> FALSE, child |-> [kind |-> "startErr", code |-> 0, interrupt |-> FALSE]]}

\* New(cfg)
InitRun ==
    /\ cfg \in RunConfigs
    /\ hostEnv = HostEnv
    /\ sessionEnv = <<>>
    /\ lastExitCode = 0
    /\ crashed = FALSE
    /\ build = "part_001"
    /\ runPc = "idle" /\ runLog = <<>>
    /\ pty = [pc |-> "idle"]
    /\ \E p \in BinaryPaths, ok \in BOOLEAN :
          /\ initErr = resolveBinary(p, ok).err
          /\ binary = resolveBinary(p, ok).path
          /\ last = [op |-> "New", BinaryPath |-> p]

\* Run is called
RunCall ==
    /\ runPc = "idle"
    /\ \E rlOK \in BOOLEAN :
          /\ runPc' = runStart(rlOK).pc
          /\ runLog' = runStart(rlOK).log
    /\ UNCHANGED <<pty, build, cfg, hostEnv, sessionEnv, lastExitCode, binary, initErr,
                   crashed, last>>

\* one turn of Run's loop
ReadlineCall ==
    /\ runPc = "reading" /\ Reads(runLog) < MaxReads
    /\ \E r \in ReadResults :
          LET b    == readlineBranch(r)
              read == <<[ev |-> "Readline", err |-> r.err, line |-> r.line]>>
          IN  IF b = "execute"
              THEN \E in \in SpawnInputs(TrimSpace(r.line), RunLoopSpawns) :
                      /\ last' = execute(TrimSpace(r.line), in.beforeErr, in.sp, in.o)
                      /\ sessionEnv' = last'.env
                      /\ lastExitCode' = last'.exitCode
                      /\ crashed' = ShellKilled(last'.events)
                      /\ runLog' = runLog \o read \o last'.events
                                     \o (IF cfg.DynamicPrompt /\ ~crashed'
                                         THEN <<[ev |-> "DynamicPrompt",
                                                 code |-> last'.exitCode]>>
                                         ELSE <<>>)
                      /\ runPc' = (IF crashed' THEN "killed" ELSE "reading")
              ELSE /\ runLog' = runLog \o read
                                  \o (IF b = "continue" THEN <<>> ELSE loopExit(b))
                   /\ runPc' = (IF b = "continue" THEN "reading" ELSE "returned")
                   /\ UNCHANGED <<last, sessionEnv, lastExitCode, crashed>>
    /\ UNCHANGED <<pty, build, cfg, hostEnv, binary, initErr>>

NextRun == RunCall \/ ReadlineCall

SpecRun == InitRun /\ [][NextRun]_vars

(***************************************************************************)
(* spawnCommand step by step (pty.go): the caller, the child process, the  *)
(* resize watcher and the stdin copy task, interleaved, and around them    *)
(* the terminal: resizes and key presses.                                  *)
(***************************************************************************)

\* chunks of output the pseudo-terminal holds for a reader of its master
PtyBufCap  == 1
\* chunks of output a child writes before it exits
MaxOutput  == 2
\* resizes of the terminal, and keys pressed, in one run
MaxResizes == 2
MaxKeys    == 1
\* sizes the terminal can have; 0 is the size of a new pseudo-terminal
MaxSize    == 2
Sizes      == 1..MaxSize

\* the state at the call of spawnCommand: in.tty is term.IsTerminal(stdin),
\* in.ptyOK whether a pseudo-terminal can be opened, in.canStart whether the
\* binary can be started, in.rawOK whether term.MakeRaw succeeds, in.output
\* the number of chunks the child writes
spawnCall(in) ==
    [pc |-> "spawnCommand", tty |-> in.tty, ptyOK |-> in.ptyOK,
     canStart |-> in.canStart, rawOK |-> in.rawOK,
     mode |-> "none", ptmx |-> "none", opens |-> 0, closes |-> 0,
     starts |-> 0, child |-> "none", toWrite |-> in.output, buf |-> 0,
     firstWrite |-> "none", notify |-> FALSE, chanBuf |-> 0,
     chanClosed |-> FALSE, watcher |-> "none", stdinCopy |-> "none",
     termSize |-> in.size, ptySize |-> 0, raw |-> FALSE,
     resizes |-> 0, keys |-> 0, typed |-> 0, stolen |-> 0,
     lateInherit |-> FALSE, defers |-> <<>>, err |-> "none"]

\* spawnCommand trying the pseudo-terminal whether or not stdin is a terminal
spawnEntry_ptyAlways(p) ==
    IF p.ptyOK /\ p.canStart
    THEN [p EXCEPT !.pc = "notify", !.mode = "pty", !.ptmx = "open",
                   !.opens = @ + 1, !.starts = @ + 1, !.child = "running",
                   !.defers = <<"Close ptmx">>]
    ELSE IF p.ptyOK
    THEN [p EXCEPT !.pc = "plain", !.mode = "plain", !.ptmx = "closed",
                   !.opens = @ + 1, !.closes = @ + 1]
    ELSE [p EXCEPT !.pc = "plain", !.mode = "plain"]

\* the first lines of spawnCommand: pty.Start opens the pseudo-terminal and
\* starts the command on it; when the command cannot be started it closes
\* the pseudo-terminal again and returns the error.  runWithPTY begins with
\* the deferred ptmx.Close()
spawnEntry(p) ==
    IF p.tty /\ p.ptyOK /\ p.canStart
    THEN [p EXCEPT !.pc = "notify", !.mode = "pty", !.ptmx = "open",
                   !.opens = @ + 1, !.starts = @ + 1, !.child = "running",
                   !.defers = <<"Close ptmx">>]
    ELSE IF p.tty /\ p.ptyOK
    THEN [p EXCEPT !.pc = "plain", !.mode = "plain", !.ptmx = "closed",
                   !.opens = @ + 1, !.closes = @ + 1]
    ELSE [p EXCEPT !.pc = "plain", !.mode = "plain"]

\* the return of runWithPTY after a failed term.MakeRaw leaving out the
\* deferred calls
returnOf_rawFailureSkipsDefers(p) ==
    IF p.err = "raw" THEN [p EXCEPT !.pc = "returned", !.defers = <<>>]
    ELSE [p EXCEPT !.pc = "defer"]

\* a return statement of runWithPTY: the deferred calls run, last
\* registered first
returnOf(p) == [p EXCEPT !.pc = "defer"]

\* one deferred call of runWithPTY
deferredCall(p) ==
    LET d    == p.defers[1]
        rest == [p EXCEPT !.defers = Tail(@)]
    IN  IF d = "Restore" THEN [rest EXCEPT !.raw = FALSE]
        ELSE IF d = "Stop winchC"
        THEN [rest EXCEPT !.notify = FALSE, !.chanClosed = TRUE]
        ELSE [rest EXCEPT !.ptmx = "closed", !.closes = @ + 1]

\* the next step of the task that called spawnCommand
callerNext(p) ==
    CASE p.pc = "spawnCommand" -> spawnEntry(p)
      [] p.pc = "plain" ->
            IF p.canStart
            THEN [p EXCEPT !.pc = "plainWait", !.starts = @ + 1,
                           !.child = "running"]
            ELSE [p EXCEPT !.pc = "returned", !.err = "start"]
      [] p.pc = "plainWait" -> [p EXCEPT !.pc = "returned"]
      [] p.pc = "notify" ->
            [p EXCEPT !.pc = "sendWinch", !.notify = TRUE,
                      !.watcher = "ranging",
                      !.defers = <<"Stop winchC">> \o @]
      [] p.pc = "sendWinch" -> [p EXCEPT !.pc = "makeRaw", !.chanBuf = 1]
      [] p.pc = "makeRaw" ->
            IF p.rawOK
            THEN [p EXCEPT !.pc = "copy", !.raw = TRUE,
                           !.defers = <<"Restore">> \o @,
                           !.stdinCopy = "reading"]
            ELSE [p EXCEPT !.pc = "rawFailWait"]
      [] p.pc = "rawFailWait" -> returnOf([p EXCEPT !.err = "raw"])
      [] p.pc = "copy" ->
            IF p.buf > 0 THEN [p EXCEPT !.buf = @ - 1]
            ELSE [p EXCEPT !.pc = "wait"]
      [] p.pc = "wait" -> returnOf(p)
      [] p.pc = "defer" ->
            IF p.defers = <<>> THEN [p EXCEPT !.pc = "returned"]
            ELSE deferredCall(p)

\* whether the caller can take its next step: a send on the full channel, a
\* read of the empty pseudo-terminal of a living child and a wait for a
\* living child block
callerReady(p) ==
    CASE p.pc \in {"idle", "returned"} -> FALSE
      [] p.pc = "sendWinch" -> p.chanBuf = 0
      [] p.pc = "copy" -> p.buf > 0 \/ p.child = "exited"
      [] p.pc \in {"plainWait", "rawFailWait", "wait"} -> p.child = "exited"
      [] OTHER -> TRUE

callerStep ==
    /\ callerReady(pty)
    /\ pty' = callerNext(pty)
    /\ UNCHANGED <<runPc, runLog, build, cfg, hostEnv, sessionEnv, lastExitCode,
                   binary, initErr, crashed, last>>

\* the child writes a chunk, or exits when it has written all; on a
\* pseudo-terminal whose buffer is full the write blocks
childStep ==
    /\ pty.pc # "idle" /\ pty.child = "running"
    /\ IF pty.toWrite = 0
       THEN pty' = [pty EXCEPT !.child = "exited"]
       ELSE IF pty.mode = "plain"
       THEN pty' = [pty EXCEPT !.toWrite = @ - 1]
       ELSE /\ pty.buf < PtyBufCap
            /\ pty' = [pty EXCEPT !.toWrite = @ - 1, !.buf = @ + 1,
                          !.firstWrite =
                              IF @ # "none" THEN @
                              ELSE IF pty.ptySize = 0 THEN "unsized"
                              ELSE "sized"]
    /\ UNCHANGED <<runPc, runLog, build, cfg, hostEnv, sessionEnv, lastExitCode,
                   binary, initErr, crashed, last>>

\* the resize watcher: for range winchC { pty.InheritSize(os.Stdin, ptmx) }
watcherStep ==
    /\ pty.pc # "idle"
    /\ \/ /\ pty.watcher = "ranging" /\ pty.chanBuf = 1
          /\ pty' = [pty EXCEPT !.chanBuf = 0, !.watcher = "inherit"]
       \/ /\ pty.watcher = "ranging" /\ pty.chanBuf = 0 /\ pty.chanClosed
          /\ pty' = [pty EXCEPT !.watcher = "done"]
       \/ /\ pty.watcher = "inherit"
          /\ pty' = [pty EXCEPT !.watcher = "ranging",
                        !.ptySize = IF pty.ptmx = "open" THEN pty.termSize ELSE @,
                        !.lateInherit = @ \/ pty.pc = "returned"]
    /\ UNCHANGED <<runPc, runLog, build, cfg, hostEnv, sessionEnv, lastExitCode,
                   binary, initErr, crashed, last>>

\* the stdin copy task: io.Copy(ptmx, os.Stdin) reads what is typed and
\* writes it to the pseudo-terminal; it ends when a write fails
stdinCopyStep ==
    /\ pty.pc # "idle"
    /\ pty.stdinCopy = "reading" /\ pty.keys > 0
    /\ pty' = [pty EXCEPT !.keys = @ - 1,
                  !.stolen = IF pty.pc = "returned" THEN @ + 1 ELSE @,
                  !.stdinCopy = IF pty.ptmx = "open" THEN "reading" ELSE "done"]
    /\ UNCHANGED <<runPc, runLog, build, cfg, hostEnv, sessionEnv, lastExitCode,
                   binary, initErr, crashed, last>>

\* the terminal is resized: SIGWINCH is sent to the channel when it is
\* registered and has room
Resize ==
    /\ pty.pc # "idle" /\ pty.tty /\ pty.resizes < MaxResizes
    /\ \E s \in Sizes \ {pty.termSize} :
          pty' = [pty EXCEPT !.termSize = s, !.resizes = @ + 1,
                     !.chanBuf = IF pty.notify THEN 1 ELSE @]
    /\ UNCHANGED <<runPc, runLog, build, cfg, hostEnv, sessionEnv, lastExitCode,
                   binary, initErr, crashed, last>>

\* a key is pressed on the terminal
KeyPress ==
    /\ pty.pc # "idle" /\ pty.tty /\ pty.typed < MaxKeys
    /\ pty' = [pty EXCEPT !.keys = @ + 1, !.typed = @ + 1]
    /\ UNCHANGED <<runPc, runLog, build, cfg, hostEnv, sessionEnv, lastExitCode,
                   binary, initErr, crashed, last>>

SpawnInputsPTY ==
    [tty : BOOLEAN, ptyOK : BOOLEAN, canStart : BOOLEAN, rawOK : BOOLEAN,
     output : 0..MaxOutput, size : Sizes]

InitPTY ==
    /\ cfg = [Env |-> <<>>, EnvBuiltin |-> <<>>, BeforeExec |-> FALSE, AfterExec |-> FALSE]
    /\ hostEnv = HostEnv
    /\ sessionEnv = <<>>
    /\ lastExitCode = 0
    /\ initErr = FALSE
    /\ binary = BinaryPath
    /\ crashed = FALSE
    /\ build = "part_001"
    /\ runPc = "idle" /\ runLog = <<>>
    /\ last = [op |-> "spawnCommand"]
    /\ \E in \in SpawnInputsPTY : pty = spawnCall(in)

NextPTY == callerStep \/ childStep \/ watcherStep \/ stdinCopyStep \/ Resize \/ KeyPress

\* every task that can take a step takes one in the end; the terminal's
\* user owes nothing
SpecPTY ==
    /\ InitPTY /\ [][NextPTY]_vars
    /\ WF_vars(callerStep) /\ WF_vars(childStep)
    /\ WF_vars(watcherStep) /\ WF_vars(stdinCopyStep)

(***************************************************************************)
(* Properties of the completion engine.                                    *)
(***************************************************************************)

\* the cursor follows a space or a tab
CursorAfterBlank ==
    /\ Len(last.segment) > 0
    /\ last.segment[Len(last.segment)] \in {" ", "\t"}

\* C1: whenever Do returns candidates for a line whose partial word is p,
\* there is one returned candidate per matched string w, it is w with its
\* first Len(p) characters removed (so p followed by it is w again when w
\* starts with p, and it is never the whole of w unless p is empty), and the
\* returned replacement length is Len(p), which is 0 when the cursor follows
\* a space or a tab.
C1_SuffixContract ==
    (last.op = "Do" /\ last.status = "returned" /\ last.newLine # <<>>) =>
        LET p == last.toComplete
        IN  /\ Len(last.newLine) = Len(last.candidates)
            /\ \A i \in 1..Len(last.newLine) :
                  LET w == last.candidates[i]
                  IN  /\ Len(last.newLine[i]) = Len(w) - Len(p)
                      /\ HasPrefix(w, p) => p \o last.newLine[i] = w
            /\ last.length = Len(p)
            /\ CursorAfterBlank => last.length = 0

\* no line of a response starts with ':'
NoColonLine(output) ==
    LET lines == Split(output, "\n")
    IN  \A i \in 1..Len(lines) : lines[i] = <<>> \/ lines[i][1] # ":"

\* what C2 says in every reading: the fallback runs exactly when the protocol
\* call reports unsupported, it is the second child and is asked for --help,
\* and a zero exit without a directive line is an empty, supported answer
FallbackFollowsUnsupported ==
    LET run == last.children[1].run
    IN  /\ last.fallback <=> ~last.ok
        /\ last.fallback <=> Len(last.children) = 2
        /\ last.fallback => last.children[2].argv = last.contextArgs \o <<S_help>>
        /\ (run.kind = "exit" /\ run.code = 0) => ~last.fallback
        /\ (run.kind = "exit" /\ run.code = 0 /\ NoColonLine(run.stdout)) =>
              (last.ok /\ last.candidates = <<>> /\ last.directive = 0)

\* C2 as stated: complete falls back if and only if the protocol call reports
\* unsupported, which happens exactly when the __completeNoDesc child times
\* out or exits non-zero; a zero exit never falls back, and a zero exit with
\* no directive line yields zero candidates and directive 0.
C2_FallbackTrigger_AsStated ==
    (last.op = "Do" /\ last.path = "binary") =>
        LET run == last.children[1].run
        IN  /\ FallbackFollowsUnsupported
            /\ ~last.ok <=> (run.kind = "timeout"
                             \/ (run.kind = "exit" /\ run.code # 0))

\* C2, amended: the protocol call reports unsupported exactly when running
\* the __completeNoDesc child returns an error, that is when the child cannot
\* be started, times out, or exits non-zero; the rest as stated.
C2_FallbackTrigger ==
    (last.op = "Do" /\ last.path = "binary") =>
        LET run == last.children[1].run
        IN  /\ FallbackFollowsUnsupported
            /\ ~last.ok <=> (run.kind = "startErr" \/ run.kind = "timeout"
                             \/ (run.kind = "exit" /\ run.code # 0))

\* a child that exits with status zero and prints candidates but no directive
\* line: no fallback, no candidate
C2_Witness ==
    /\ last.op = "Do" /\ last.path = "binary"
    /\ last.children[1].run.kind = "exit" /\ last.children[1].run.code = 0
    /\ last.children[1].run.stdout # <<>>
    /\ NoColonLine(last.children[1].run.stdout)
    /\ ~last.fallback /\ last.candidates = <<>>

\* C3: the result of the help fallback is exactly the collected candidates
\* that start with the partial word, in collection order, and all of them when
\* the partial word is empty; the candidates of a successful protocol
\* response are its decoded candidate lines, with no prefix filter applied.
C3_PrefixFilterOnlyOnFallback ==
    (last.op = "Do" /\ last.path = "binary") =>
        LET p == last.toComplete
        IN  /\ last.fallback =>
                 LET collected == parseHelp(last.children[2].run.stdout, <<>>)
                 IN  /\ last.candidates =
                           SelectSeq(collected, LAMBDA c : HasPrefix(c, p))
                     /\ p = <<>> => last.candidates = collected
            /\ last.ok =>
                 last.candidates =
                     parseCompletions(last.children[1].run.stdout).candidates

\* a fallback in which the filter keeps some of the collected candidates and
\* drops others
C3_Witness ==
    /\ last.op = "Do" /\ last.path = "binary" /\ last.fallback
    /\ last.candidates # <<>>
    /\ Len(last.candidates) < Len(parseHelp(last.children[2].run.stdout, <<>>))

(***************************************************************************)
(* Properties of the protocol decoder.                                     *)
(***************************************************************************)

\* ':' followed by one or more decimal digits and nothing else
ColonDigits(line) ==
    /\ Len(line) >= 2
    /\ line[1] = ":"
    /\ \A i \in 2..Len(line) : line[i] \in Digit

\* the number after the ':' is at most math.MaxInt64
FitsInt(line) ==
    LET sig == TrimLeft(Tail(line), {"0"})
    IN  \/ Len(sig) < Len(MaxInt64Digits)
        \/ Len(sig) = Len(MaxInt64Digits) /\ DigitsLeq(sig, MaxInt64Digits)

\* the number of the last non-empty line of a response, 0 when all are empty
FinalLine(output) ==
    LET lines == Split(output, "\n")
        used  == {i \in 1..Len(lines) : lines[i] # <<>>}
    IN  IF used = {} THEN 0 ELSE CHOOSE i \in used : \A j \in used : j <= i

\* the response is lines c1..cN followed by a directive line ':D', and then
\* nothing but newlines
EndsWithDirective(output) ==
    /\ FinalLine(output) # 0
    /\ ColonDigits(Split(output, "\n")[FinalLine(output)])

\* for such a response, the decoder returns the non-empty lines before the
\* directive line, in order, and D
DecodedAsWritten ==
    LET lines == Split(last.output, "\n")
        d     == FinalLine(last.output)
    IN  /\ last.candidates = SelectSeq(SubSeq(lines, 1, d - 1), LAMBDA c : c # <<>>)
        /\ last.directive = DigitsValue(Tail(lines[d]), 0)

\* C4 as stated: for any response whose lines are c1..cN followed by a
\* directive line ':D', parseCompletions returns the non-empty lines before
\* that line, in order, and D, whatever blank lines come before it and
\* whatever newlines after it.
C4_DirectiveParsing_AsStated ==
    (last.op = "parseCompletions" /\ EndsWithDirective(last.output)) =>
        DecodedAsWritten

\* C4, amended: the same, for every D that fits Go's int.
C4_DirectiveParsing ==
    (last.op = "parseCompletions" /\ EndsWithDirective(last.output)
     /\ FitsInt(Split(last.output, "\n")[FinalLine(last.output)])) =>
        DecodedAsWritten

\* a response with a blank line between its candidates and newlines after
\* the directive line
C4_Witness ==
    /\ last.op = "parseCompletions"
    /\ EndsWithDirective(last.output)
    /\ Len(last.candidates) = 2
    /\ \E i \in 1..(FinalLine(last.output) - 1) : Split(last.output, "\n")[i] = <<>>
    /\ FinalLine(last.output) < Len(Split(last.output, "\n")) - 1
    /\ last.directive = 6

\* C5: the line parseCompletions takes as the directive line is ':' followed
\* by one or more decimal digits and nothing else.
C5_DirectiveLineShape ==
    (last.op = "parseCompletions" /\ last.at # 0) =>
        ColonDigits(Split(last.output, "\n")[last.at])

\* C6: a Do call that asks the binary and returns, returns no candidates and
\* replacement length 0 exactly when the directive has bit 1 set or the
\* candidate list is empty; otherwise it returns one entry per candidate, a
\* suffix of it, whatever the other bits of the directive are.
C6_ErrorBitSuppression ==
    (last.op = "Do" /\ last.path = "binary" /\ last.status = "returned") =>
        LET suppressed == last.directive % 2 = 1 \/ last.candidates = <<>>
        IN  /\ (last.newLine = <<>> /\ last.length = 0) <=> suppressed
            /\ ~suppressed =>
                  /\ Len(last.newLine) = Len(last.candidates)
                  /\ \A i \in 1..Len(last.newLine) :
                        LET w == last.candidates[i]
                            r == last.newLine[i]
                        IN  r = SubSeq(w, Len(w) - Len(r) + 1, Len(w))

\* candidates returned under a directive with bits 2, 4 and 32 set
C6_Witness ==
    /\ last.op = "Do" /\ last.path = "binary" /\ last.status = "returned"
    /\ last.directive = 38
    /\ Len(last.newLine) = 2

EntryKey(entry) == Split(entry, "=")[1]

\* the entry a child process sees for a name: the last one of that name in
\* its environment list, <<>> when there is none
LastEntry(env, key) ==
    LET at == {i \in 1..Len(env) : EntryKey(env[i]) = key}
    IN  IF at = {} THEN <<>> ELSE env[CHOOSE i \in at : \A j \in at : j <= i]

\* env is the inherited environment, then Config.Env, then one entry per
\* session variable, in some order
IsLayered(env) ==
    LET nh   == Len(hostEnv)
        nc   == Len(cfg.Env)
        rest == SubSeq(env, nh + nc + 1, Len(env))
    IN  /\ Len(env) = nh + nc + Cardinality(DOMAIN sessionEnv)
        /\ SubSeq(env, 1, nh) = hostEnv
        /\ SubSeq(env, nh + 1, nh + nc) = cfg.Env
        /\ {rest[i] : i \in 1..Len(rest)} =
               {Pair(k, sessionEnv[k]) : k \in DOMAIN sessionEnv}

\* the entry that wins for a name: session, else Config.Env, else inherited
Winner(key) ==
    IF key \in DOMAIN sessionEnv THEN Pair(key, sessionEnv[key])
    ELSE IF LastEntry(cfg.Env, key) # <<>> THEN LastEntry(cfg.Env, key)
    ELSE LastEntry(hostEnv, key)

CheckedKeys == Keys \cup {<<"P">>, <<"Q">>, <<"Z">>}

\* the processes a submitted line started
Spawned(events) == SelectSeq(events, LAMBDA e : e.ev = "spawn")

\* C8: the environment of every command or pipeline that is spawned is the
\* inherited environment, then Config.Env, then the session entries; for
\* every name its last entry is the session value if the session has the
\* name, else the Config.Env value, else the inherited one.
C8_EnvPrecedence ==
    last.op = "execute" =>
        \A i \in 1..Len(Spawned(last.events)) :
            LET env == Spawned(last.events)[i].env
            IN  /\ IsLayered(env)
                /\ \A key \in CheckedKeys : LastEntry(env, key) = Winner(key)

\* a command spawned while the session, Config.Env and the inherited
\* environment all define A
C8_Witness ==
    /\ last.op = "execute" /\ Len(Spawned(last.events)) = 1
    /\ K_A \in DOMAIN sessionEnv
    /\ LastEntry(cfg.Env, K_A) # <<>>
    /\ LastEntry(hostEnv, K_A) # <<>>
    /\ LastEntry(Spawned(last.events)[1].env, K_A) = Pair(K_A, sessionEnv[K_A])

\* C9: every child process of the shell (a command, a pipeline's sh, the
\* __completeNoDesc call, the --help call) gets the inherited environment,
\* then Config.Env, then the current session entries.
C9_EveryChildGetsSessionEnv ==
    /\ last.op = "execute" =>
          \A i \in 1..Len(Spawned(last.events)) :
              IsLayered(Spawned(last.events)[i].env)
    /\ last.op = "Do" =>
          \A i \in 1..Len(last.children) : IsLayered(last.children[i].env)

\* pairs is one "KEY=VALUE" string per variable of the map m, ascending
IsSnapshot(pairs, m) ==
    /\ Len(pairs) = Cardinality(DOMAIN m)
    /\ {pairs[i] : i \in 1..Len(pairs)} = {Pair(k, m[k]) : k \in DOMAIN m}
    /\ \A i, j \in 1..Len(pairs) : i < j => StrLess(pairs[i], pairs[j])

\* the session map after the step differs from the one before it in at most
\* the variable key, which is now set to value
NowSet(key, value) ==
    /\ DOMAIN sessionEnv' = DOMAIN sessionEnv \cup {key}
    /\ sessionEnv'[key] = value
    /\ \A k \in DOMAIN sessionEnv \ {key} : sessionEnv'[k] = sessionEnv[k]

\* ... and in which the variable key is now absent
NowUnset(key) ==
    /\ DOMAIN sessionEnv' = DOMAIN sessionEnv \ {key}
    /\ \A k \in DOMAIN sessionEnv' : sessionEnv'[k] = sessionEnv[k]
    /\ key \notin DOMAIN sessionEnv => sessionEnv' = sessionEnv

\* what one step does to the session variables, and what it lists
SessionStep ==
    CASE last'.op = "SetEnv" /\ last'.status = "returned" ->
             NowSet(last'.key, last'.value)
      [] last'.op = "UnsetEnv" ->
             NowUnset(last'.key)
      [] last'.op = "SessionEnv" ->
             sessionEnv' = sessionEnv /\ IsSnapshot(last'.pairs, sessionEnv)
      [] last'.op = "execute" /\ last'.path = "builtin"
           /\ Len(last'.tokens) = 4 /\ last'.tokens[2] = S_set ->
             NowSet(last'.tokens[3], last'.tokens[4])
      [] last'.op = "execute" /\ last'.path = "builtin"
           /\ Len(last'.tokens) = 3 /\ last'.tokens[2] = S_unset ->
             NowUnset(last'.tokens[3])
      [] last'.op = "execute" /\ last'.path = "builtin"
           /\ Len(last'.tokens) = 2 /\ last'.tokens[2] = S_list ->
             /\ sessionEnv' = sessionEnv
             /\ IsSnapshot([i \in 1..Len(last'.events) |-> last'.events[i].text],
                           sessionEnv)
             /\ \A i \in 1..Len(last'.events) : last'.events[i].ev = "println"
      [] OTHER -> sessionEnv' = sessionEnv

\* C10: SetEnv and "env set K V" set one variable and leave the others;
\* UnsetEnv and "env unset K" remove one variable and leave the others, and
\* change nothing when it is absent; no other step changes the session
\* variables; SessionEnv returns, and "env list" prints, exactly one
\* "KEY=VALUE" string per variable that is set, with its current value, in
\* ascending string order.
C10_SessionEnvSnapshot == [][SessionStep]_vars

\* SessionEnv returning two variables
C10_Witness ==
    /\ last.op = "SessionEnv"
    /\ Len(last.pairs) = 2
    /\ sessionEnv[K_A] = V_2

\* C11: after any sequence of SetEnv, UnsetEnv, SessionEnv, env built-in
\* lines, command and pipeline spawns and completion requests, the shell
\* process's own environment is what it was when the Shell was made.
C11_HostEnvNeverWritten == hostEnv = HostEnv

\* a command spawned with a session variable in its environment, the
\* shell's own environment untouched
C11_Witness ==
    /\ last.op = "execute" /\ Len(Spawned(last.events)) = 1
    /\ sessionEnv # <<>>
    /\ Len(Spawned(last.events)[1].env) > Len(hostEnv) + Len(cfg.Env)
    /\ hostEnv = HostEnv

(***************************************************************************)
(* Properties of the command executor.                                     *)
(***************************************************************************)

\* the first token of the line is the configured name of the env built-in
NamesBuiltin(tokens) == cfg.EnvBuiltin # <<>> /\ tokens[1] = cfg.EnvBuiltin

\* C12: a submitted line with at least one token is handled by the env
\* built-in if and only if Config.EnvBuiltin is non-empty and the first token
\* equals it; handling such a line calls no hook and spawns no process, it
\* only prints.
C12_BuiltinInterception ==
    (last.op = "execute" /\ last.path \notin {"parseError", "empty"}) =>
        /\ last.path = "builtin" <=> NamesBuiltin(last.tokens)
        /\ last.path = "builtin" =>
              \A i \in 1..Len(last.events) :
                  last.events[i].ev \in {"stdout", "stderr", "println"}

\* a built-in line that also holds a standalone "|", with both hooks set
C12_Witness ==
    /\ last.op = "execute" /\ last.path = "builtin"
    /\ cfg.BeforeExec /\ cfg.AfterExec
    /\ \E i \in 1..Len(last.tokens) : last.tokens[i] = S_pipe

\* the number of arguments that follow the subcommand
Argc(tokens) == Len(tokens) - 2

\* a built-in line whose subcommand is unknown, or is set or unset with a
\* wrong number of arguments
BadBuiltinLine(tokens) ==
    /\ NamesBuiltin(tokens) /\ Len(tokens) >= 2
    /\ \/ tokens[2] = S_set /\ Argc(tokens) # 2
       \/ tokens[2] = S_unset /\ Argc(tokens) # 1
       \/ ~IsHelpFlag(tokens[2]) /\ tokens[2] \notin {S_list, S_set, S_unset}

\* one call of execute on a line that names the built-in
BuiltinStep ==
    (last.op = "input" /\ last'.op = "execute" /\ last'.path # "parseError"
       /\ Len(last'.tokens) > 0 /\ NamesBuiltin(last'.tokens)) =>
        LET t == last'.tokens IN
        /\ sessionEnv' # sessionEnv =>
              /\ Len(t) >= 2
              /\ \/ t[2] = S_set /\ Argc(t) = 2
                 \/ t[2] = S_unset /\ Argc(t) = 1
        /\ BadBuiltinLine(t) =>
              /\ last'.path = "builtin"
              /\ sessionEnv' = sessionEnv
              /\ Len(last'.events) = 1
              /\ last'.events[1].ev \in {"stdout", "stderr"}
              /\ (Len(t) < 3 \/ ~IsHelpFlag(t[3])) => last'.events[1].ev = "stderr"

\* C13: the env built-in changes the session map only for set with exactly
\* two arguments and unset with exactly one; for another argument count and
\* for an unknown subcommand one message is printed, the session map is what
\* it was, and the line is handled.
C13_BuiltinArgumentErrors == [][BuiltinStep]_vars

\* set with three arguments and unset with two, on a session that holds the
\* key, were answered with a message
C13_Witness ==
    /\ last.op = "execute" /\ last.path = "builtin"
    /\ BadBuiltinLine(last.tokens)
    /\ last.tokens[2] \in {S_set, S_unset} /\ Argc(last.tokens) > 1
    /\ last.tokens[3] \in DOMAIN sessionEnv
    /\ last.events[1].ev = "stderr"

\* the token is the one character "|"
StandalonePipe(t) == Len(t) = 1 /\ t[1] = "|"

\* C14: hasPipe is true exactly when some token is the one-character string
\* "|", and leftOfFirstPipe is the longest prefix of the token list that
\* holds no such token: the tokens before the first one, all of them when
\* there is none.
C14_PipeDetection ==
    last.op = "pipe" =>
        LET t == last.tokens
            n == Len(last.left)
        IN  /\ last.has <=> \E i \in 1..Len(t) : StandalonePipe(t[i])
            /\ n <= Len(t) /\ last.left = SubSeq(t, 1, n)
            /\ \A i \in 1..n : ~StandalonePipe(t[i])
            /\ IF last.has THEN n < Len(t) /\ StandalonePipe(t[n + 1])
                           ELSE n = Len(t)

\* two standalone pipes after a token that holds a fused one
C14_Witness ==
    /\ last.op = "pipe" /\ last.has
    /\ Len(last.left) >= 1 /\ Len(last.tokens) >= Len(last.left) + 3
    /\ \E i \in 1..Len(last.left) : last.left[i] = <<"a", "|", "b">>
    /\ \E i \in (Len(last.left) + 2)..Len(last.tokens) : StandalonePipe(last.tokens[i])

\* the line with every "|" that stands inside quotes or after a backslash
\* replaced by the letter Q; st is where the tokenizer is before line[i]
RECURSIVE MaskQuoted(_, _, _)
MaskQuoted(line, i, st) ==
    IF i > Len(line) THEN <<>>
    ELSE LET c == line[i]
             next ==
                 CASE st \in {"start", "word"} ->
                          IF c = "\"" THEN "dq"
                          ELSE IF c = "'" THEN "sq"
                          ELSE IF c = "\\" THEN "esc"
                          ELSE IF c \in {" ", "\t", "\r", "\n"} THEN "start"
                          ELSE IF c = "#" /\ st = "start" THEN "comment"
                          ELSE "word"
                   [] st = "esc" -> "word"
                   [] st = "dq" -> IF c = "\"" THEN "word"
                                   ELSE IF c = "\\" THEN "dqesc" ELSE "dq"
                   [] st = "dqesc" -> "dq"
                   [] st = "sq" -> IF c = "'" THEN "word" ELSE "sq"
                   [] OTHER -> IF c = "\n" THEN "start" ELSE "comment"
             out == IF c = "|" /\ st \in {"dq", "sq", "esc", "dqesc"} THEN "Q" ELSE c
         IN  <<out>> \o MaskQuoted(line, i + 1, next)

\* the tokens of the line in which only a "|" written outside quotes is "|"
UnquotedView(line) == shlexSplit(MaskQuoted(line, 1, "start")).tokens

\* the number of tokens before the first standalone "|" written outside
\* quotes, all of them when there is none
LeftLen(line) ==
    LET v == UnquotedView(line)
        P == {i \in 1..Len(v) : StandalonePipe(v[i])}
    IN  IF P = {} THEN Len(v) ELSE (CHOOSE i \in P : \A j \in P : i <= j) - 1

\* C15: a "|" written inside quotes is no pipeline separator: a line is run
\* as a pipeline only when it holds a standalone "|" written outside quotes,
\* and the tokens BeforeExec and AfterExec receive are not cut at a quoted
\* one.
C15_QuotedPipeIsNoSeparator ==
    (last.op = "execute" /\ last.path \in {"direct", "pipeline"}) =>
        /\ last.path = "pipeline" =>
              \E i \in 1..Len(UnquotedView(last.line)) :
                  StandalonePipe(UnquotedView(last.line)[i])
        /\ \A i \in 1..Len(last.events) :
              last.events[i].ev \in {"BeforeExec", "AfterExec"} =>
                  last.events[i].args = SubSeq(last.tokens, 1, LeftLen(last.line))

\* the hook events among the events of a call
HookEvents(events) ==
    SelectSeq(events, LAMBDA e : e.ev \in {"BeforeExec", "AfterExec"})

\* one call of execute that runs a pipeline
PipelineHookStep ==
    (last.op = "input" /\ last'.op = "execute" /\ last'.path = "pipeline") =>
        LET t == last'.tokens
            h == HookEvents(last'.events)
        IN  \A i \in 1..Len(h) :
              LET a == h[i].args IN
              /\ Len(a) < Len(t) /\ a = SubSeq(t, 1, Len(a))
              /\ StandalonePipe(t[Len(a) + 1])
              /\ \A j \in 1..Len(a) : ~StandalonePipe(a[j])
              /\ (h[i].ev = "AfterExec" /\ last.sp.child.kind = "exit") =>
                    h[i].exitCode = last.sp.child.code

\* C16: for a pipeline line BeforeExec and AfterExec each receive exactly
\* the tokens before the first standalone "|" (not the "|", not a token of a
\* later stage), and AfterExec receives the exit status of the sh process
\* that ran the pipeline.
C16_PipelineHookTokens == [][PipelineHookStep]_vars

\* a pipeline of three stages that ended with status 1, both hooks called
C16_Witness ==
    /\ last.op = "execute" /\ last.path = "pipeline"
    /\ Cardinality({i \in 1..Len(last.tokens) : StandalonePipe(last.tokens[i])}) = 2
    /\ Len(HookEvents(last.events)) = 2
    /\ HookEvents(last.events)[1].args = <<W_echo, K_A>>
    /\ HookEvents(last.events)[2].exitCode = 1

\* the script of a pipeline: the resolved binary in single quotes, one space,
\* the line
Script(line) == <<"'">> \o binary \o <<"'">> \o <<" ">> \o line

\* one call of execute that runs a pipeline
PipelineSpawnStep ==
    (last.op = "input" /\ last'.op = "execute" /\ last'.path = "pipeline") =>
        LET sp == Spawned(last'.events) IN
        /\ Len(sp) <= 1
        /\ ~(cfg.BeforeExec /\ last.beforeErr) => Len(sp) = 1
        /\ \A i \in 1..Len(sp) :
              /\ sp[i].path = <<"s", "h">>
              /\ sp[i].argv = << <<"-", "c">>, Script(last.line) >>
              /\ sp[i].mode = "plain"

\* C17: a pipeline line is run as one process, sh -c with the script made of
\* the resolved binary path in single quotes, one space and the line as it
\* was submitted, and it is run without a PTY also when stdin is a terminal.
C17_PipelineDelegation == [][PipelineSpawnStep]_vars

\* a pipeline run while stdin was a terminal on which a PTY could be made
C17_Witness ==
    /\ last.op = "execute" /\ last.path = "pipeline" /\ last.ptyAvailable
    /\ Len(Spawned(last.events)) = 1
    /\ Spawned(last.events)[1].mode = "plain"
    /\ Spawned(last.events)[1].argv[2] = Script(last.line)

\* the AfterExec events among the events of a call
AfterEvents(events) == SelectSeq(events, LAMBDA e : e.ev = "AfterExec")

\* the call reported an error of running the child
ReportedError(events) ==
    \E i \in 1..Len(events) :
        events[i].ev = "stderr" /\ events[i].text = "spawn error"

\* the child ran and ended with status n: its status is the exit code, no
\* error is reported, lastExitCode is n, AfterExec (when set) is called once
\* with n
ExitReported(n) ==
    /\ last'.exitCode = n /\ lastExitCode' = n
    /\ ~ReportedError(last'.events)
    /\ Len(AfterEvents(last'.events)) = (IF cfg.AfterExec THEN 1 ELSE 0)
    /\ \A i \in 1..Len(AfterEvents(last'.events)) :
          AfterEvents(last'.events)[i].exitCode = n

\* one call of execute whose child was started and exited
ChildExited ==
    /\ last.op = "input" /\ last'.op = "execute"
    /\ last'.path \in {"direct", "pipeline"}
    /\ Len(Spawned(last'.events)) = 1
    /\ last.sp.child.kind = "exit"

\* the child runs on a PTY and the terminal cannot be put in raw mode
RawModeFails ==
    last'.path = "direct" /\ last.sp.tty /\ last.sp.ptyOK /\ ~last.sp.rawOK

SpawnFailed ==
    /\ last.op = "input" /\ last'.op = "execute"
    /\ last'.path \in {"direct", "pipeline"}
    /\ Len(Spawned(last'.events)) = 1
    /\ last.sp.child.kind = "startErr"

\* C19: when the child process cannot be started the error is printed and
\* the command counts as failed: the exit code kept in lastExitCode and
\* handed to AfterExec is not 0.
C19_SpawnFailureIsFailure ==
    [][SpawnFailed =>
          /\ ReportedError(last'.events)
          /\ lastExitCode' # 0
          /\ \A i \in 1..Len(AfterEvents(last'.events)) :
                AfterEvents(last'.events)[i].exitCode # 0]_vars

\* the positions of the events of one kind
EventsAt(events, kind) == {i \in 1..Len(events) : events[i].ev = kind}

\* one call of execute on a command or a pipeline
HookStep ==
    (last.op = "input" /\ last'.op = "execute"
       /\ last'.path \in {"direct", "pipeline"}) =>
        LET e      == last'.events
            before == EventsAt(e, "BeforeExec")
            spawns == EventsAt(e, "spawn")
            after  == EventsAt(e, "AfterExec")
        IN  /\ Cardinality(before) = (IF cfg.BeforeExec THEN 1 ELSE 0)
            /\ IF cfg.BeforeExec /\ last.beforeErr
               THEN /\ spawns = {} /\ after = {}
                    /\ lastExitCode' = lastExitCode
                    /\ sessionEnv' = sessionEnv
                    /\ ~crashed'
               ELSE /\ Cardinality(spawns) = 1
                    /\ Cardinality(after) = (IF cfg.AfterExec THEN 1 ELSE 0)
                    /\ \A i \in before, j \in spawns : i < j
                    /\ \A j \in spawns, k \in after : j < k

\* C20: when BeforeExec returns an error, for a direct command and for a
\* pipeline, no process is spawned, AfterExec is not called, lastExitCode
\* keeps its value and the shell goes on; when BeforeExec is nil or returns
\* nil the command is spawned once and AfterExec, if set, is called once
\* after it.
C20_BeforeExecVeto == [][HookStep]_vars

\* a vetoed pipeline, AfterExec set, the exit code of an earlier command kept
C20_Witness ==
    /\ last.op = "execute" /\ last.path = "pipeline"
    /\ cfg.BeforeExec /\ cfg.AfterExec
    /\ Len(last.events) = 2
    /\ last.events[1].ev = "BeforeExec"
    /\ last.events[2].ev = "stderr" /\ last.events[2].text = "BeforeExec error"
    /\ lastExitCode = 1 /\ ~crashed

(***************************************************************************)
(* Properties of Run.                                                      *)
(***************************************************************************)

\* the log holds an event of this kind
Logged(log, kind) == \E i \in 1..Len(log) : log[i].ev = kind

\* the log holds this message on stderr
LoggedError(log, text) ==
    \E i \in 1..Len(log) : log[i].ev = "stderr" /\ log[i].text = text

\* one turn of Run's loop: the loop ends exactly when Readline returned
\* end-of-input or an error other than an interrupt, or the line exit
LoopStep ==
    (runPc = "reading" /\ runLog' # runLog) =>
        LET r == runLog'[Len(runLog) + 1] IN
        /\ r.ev = "Readline"
        /\ runPc' \in {"reading", "returned"}
        /\ runPc' = "returned" <=>
              \/ r.err \in {"EOF", "other"}
              \/ r.err = "none" /\ TrimSpace(r.line) = S_exit
        /\ ~crashed'

\* C21: no failure of one command ends the session: after a line that does
\* not tokenize, a BeforeExec veto, a spawn failure, a non-zero exit, a usage
\* error of the built-in or an interrupt at the prompt Run reads the next
\* line; the loop ends only on the line exit, on end-of-input or on an error
\* of the line editor.
C21_LoopSurvivesFailures == [][LoopStep]_vars

\* three turns (a line that did not tokenize, a command that could not be
\* spawned, an interrupt) and Run is about to read again
C21_Witness ==
    /\ runPc = "reading" /\ Reads(runLog) = 3
    /\ LoggedError(runLog, "parse error")
    /\ LoggedError(runLog, "spawn error")
    /\ \E i \in 1..Len(runLog) : runLog[i].ev = "Readline" /\ runLog[i].err = "interrupt"

\* C22: when BinaryPath is empty or does not resolve, New returns a Shell
\* that carries the error and has no binary, and Run returns that error and
\* does nothing else: the line editor is not initialised, no line is read,
\* no process is spawned, OnStart and OnExit are not called.
C22_InitFailureIsFatal ==
    /\ (last.op = "New" /\ last.BinaryPath = <<>>) => initErr
    /\ initErr =>
          /\ last.op = "New" /\ binary = <<>>
          /\ sessionEnv = <<>> /\ lastExitCode = 0
          /\ runPc \in {"idle", "returned"}
          /\ runPc = "idle" => runLog = <<>>
          /\ runPc = "returned" => runLog = <<[ev |-> "return", err |-> "init"]>>

\* Run has returned on a Shell whose bare binary name was not found, with
\* both hooks set
C22_Witness ==
    /\ initErr /\ runPc = "returned"
    /\ last.op = "New" /\ last.BinaryPath # <<>>
    /\ cfg.OnStart /\ cfg.OnExit
    /\ Len(runLog) = 1

\* where the events of one kind are in the log of Run
LogAt(kind) == {i \in 1..Len(runLog) : runLog[i].ev = kind}

\* the events of reading a line and of running a command
WorkAt ==
    LogAt("Readline") \cup LogAt("BeforeExec") \cup LogAt("spawn") \cup LogAt("AfterExec")

\* Run has returned nil
ReturnedNil ==
    /\ runPc = "returned"
    /\ runLog[Len(runLog)].ev = "return" /\ runLog[Len(runLog)].err = "nil"

\* C23: once the line editor is initialised OnStart, if set, is called once,
\* before the first line is read and before any command runs; OnExit, if
\* set, is called once, after the last command, exactly when the loop ended
\* on exit or end-of-input, and not when Run returns an error; a hook that is
\* not set is not called.
C23_LifecycleHookOrder ==
    /\ Cardinality(LogAt("OnStart")) =
          (IF cfg.OnStart /\ (runPc = "reading" \/ WorkAt # {}) THEN 1 ELSE 0)
    /\ \A i \in LogAt("OnStart"), j \in WorkAt : i < j
    /\ Cardinality(LogAt("OnExit")) = (IF cfg.OnExit /\ ReturnedNil THEN 1 ELSE 0)
    /\ \A i \in LogAt("OnExit"), j \in WorkAt : j < i

\* a session with both hooks that ran a command and ended on exit
C23_Witness ==
    /\ ReturnedNil /\ cfg.OnStart /\ cfg.OnExit
    /\ LogAt("spawn") # {}
    /\ \E i \in LogAt("Readline") : TrimSpace(runLog[i].line) = S_exit
    /\ LogAt("OnExit") # {}

(***************************************************************************)
(* Properties of the terminal and of interrupts while a command runs.      *)
(***************************************************************************)

\* the run put the terminal in raw mode
WentRaw(ops) == \E i \in 1..Len(ops) : ops[i] = "MakeRaw"

\* C24: whenever a spawn on a PTY has put the parent terminal in raw mode,
\* the terminal is back in its original mode when spawnCommand returns,
\* whether the child exited with 0, exited with another status or the wait
\* for it failed.
C24_TerminalRestored ==
    last.op = "execute" =>
        \A i \in 1..Len(last.events) :
            (last.events[i].ev = "spawn" /\ WentRaw(last.events[i].ops)) =>
                /\ termMode(last.events[i].ops) = "cooked"
                /\ ~last.events[i].killed

\* a PTY run in raw mode whose wait failed
C24_Witness ==
    /\ last.op = "execute" /\ Len(Spawned(last.events)) = 1
    /\ Spawned(last.events)[1].mode = "pty"
    /\ WentRaw(Spawned(last.events)[1].ops)
    /\ ReportedError(last.events)

\* where the run waits for the child
WaitsAt(ops) == {i \in 1..Len(ops) : ops[i] \in {"Run", "Wait"}}

\* one call of execute that spawns a child: in plain mode SIGINT is routed to
\* the parent's channel while the child runs and is released when runPlain
\* returns; when Ctrl-C is pressed on a PTY the terminal is in raw mode, so
\* that it is a byte handed to the child; the interrupt does not end the
\* shell process, and execute returns
InterruptStep ==
    (last.op = "input" /\ last'.op = "execute"
       /\ Len(Spawned(last'.events)) = 1) =>
        LET e == Spawned(last'.events)[1] IN
        /\ e.mode = "plain" =>
              /\ \A i \in WaitsAt(e.ops) : ArmedAt(e.ops, i)
              /\ ~ArmedAt(e.ops, Len(e.ops) + 1)
        /\ last.sp.child.interrupt =>
              /\ e.mode = "pty" => \A i \in WaitsAt(e.ops) : RawAt(e.ops, i)
              /\ ~e.killed /\ ~crashed'
              /\ lastExitCode' = last.sp.child.code

TimeoutStep ==
    (last.op = "input" /\ last'.op = "Do" /\ last'.path = "binary"
       /\ last.protoRun.kind = "timeout") =>
        /\ last'.children[1].argv[1] = S_completeNoDesc
        /\ last'.children[1].killed
        /\ ~last'.ok /\ last'.fallback
        /\ Len(last'.children) = 2
        /\ last'.children[2].argv = last'.contextArgs \o <<S_help>>
        /\ last'.children[2].run.kind = "timeout" => last'.children[2].killed
        /\ last'.status = "returned"
        /\ last'.candidates = parseHelp(last'.children[2].run.stdout,
                                         last'.toComplete)
        /\ ~crashed'
        /\ UNCHANGED <<sessionEnv, lastExitCode, hostEnv, cfg, binary, runPc>>

OpenQuote(text) ==
    \E i \in 1..Len(text) :
        /\ text[i] \in {"'", "\""}
        /\ ~shlexSplit(SubSeq(text, 1, i - 1)).err
        /\ \A j \in (i + 1)..Len(text) : text[j] # text[i]
        /\ \A j \in 1..(i - 1) : text[j] \notin {"'", "\"", "\\", "#"}

\* one step of a session on a text that cannot be tokenized: a Tab press
\* gets no candidates and runs nothing, a submitted line prints the parse
\* error and runs nothing
ParseFailureStep ==
    /\ (last'.op = "Do" /\ OpenQuote(SubSeq(last'.line, 1, last'.pos))) =>
          /\ last'.path = "parseError" /\ last'.status = "returned"
          /\ last'.newLine = <<>> /\ last'.length = 0
          /\ last'.children = <<>>
          /\ ~crashed'
          /\ UNCHANGED <<sessionEnv, lastExitCode, hostEnv, cfg, binary>>
    /\ (last'.op = "execute" /\ OpenQuote(last'.line)) =>
          /\ last'.path = "parseError"
          /\ last'.events = <<[ev |-> "stderr", text |-> "parse error"]>>
          /\ ~crashed'
          /\ UNCHANGED <<sessionEnv, lastExitCode, hostEnv, cfg, binary>>

\* C27: a tokenization failure of the text before the cursor (an unbalanced
\* quote) makes Do return zero candidates and replacement length 0, with no
\* subprocess run and no session state changed; a tokenization failure of a
\* submitted line prints a parse error and skips execution: no hook is
\* called and no process is started.
C27_TokenizationFailure == [][ParseFailureStep]_vars

\* a session with a variable set in which a Tab press met an open quote
C27_Witness ==
    /\ last.op = "Do" /\ last.path = "parseError"
    /\ OpenQuote(last.segment) /\ last.newLine = <<>>
    /\ sessionEnv # <<>>

\* the members of a sequence
Range(seq) == {seq[i] : i \in 1..Len(seq)}

\* the words the env built-in has to offer after the tokens sub, for the
\* partial word p
EnvOffers(sub, p) ==
    IF sub = <<>>
    THEN {w \in {S_list, S_set, S_unset} : HasPrefix(w, p)}
    ELSE IF sub = <<S_unset>>
    THEN {k \in DOMAIN sessionEnv : HasPrefix(k, p)}
    ELSE {}

\* C28: completion of the env built-in is answered in-process, with no run
\* of the wrapped binary: directly after the built-in name the candidates are
\* those of list, set, unset that start with the partial word; after unset
\* they are exactly the keys of the session environment that start with the
\* partial word; in every other position there are none; the candidates are
\* returned as suffixes of the partial word.
C28_EnvBuiltinCompletion ==
    (last.op = "Do" /\ last.path # "parseError"
       /\ cfg.EnvBuiltin # <<>> /\ Len(last.contextArgs) >= 1
       /\ last.contextArgs[1] = cfg.EnvBuiltin) =>
        LET p      == last.toComplete
            offers == EnvOffers(Tail(last.contextArgs), p)
        IN  /\ last.children = <<>>
            /\ last.status = "returned"
            /\ Len(last.newLine) = Cardinality(offers)
            /\ {p \o last.newLine[i] : i \in 1..Len(last.newLine)} = offers
            /\ last.length = (IF offers = {} THEN 0 ELSE Len(p))

\* the tokens that follow the last standalone "|" of a token list
AfterLastPipe(tokens) ==
    LET hits == {i \in 1..Len(tokens) : tokens[i] = S_pipe}
    IN  IF hits = {}
        THEN tokens
        ELSE SubSeq(tokens, (CHOOSE i \in hits : \A j \in hits : j <= i) + 1,
                    Len(tokens))

\* C29: when the text before the cursor has one or more standalone "|"
\* tokens before the word being typed, that word is completed in the context
\* that starts after the last "|": the wrapped binary is asked with the
\* tokens that follow it, never with the tokens before the pipe.
C29_CompletionAfterPipe ==
    (last.op = "Do" /\ last.path # "parseError" /\ hasPipe(last.contextArgs)) =>
        /\ last.path = "binary"
        /\ last.children[1].argv =
              (<<S_completeNoDesc>> \o AfterLastPipe(last.contextArgs))
              \o <<last.toComplete>>

\* C30: for every list of candidates the wrapped binary returns on the
\* protocol path, also one with candidates that do not start with the
\* partial word p or are shorter than p, Do returns normally, and p followed
\* by each returned suffix is one of the candidates the binary returned.
C30_Reconstruction ==
    (last.op = "Do" /\ last.path = "binary" /\ last.ok) =>
        /\ last.status = "returned"
        /\ \A i \in 1..Len(last.newLine) :
              (last.toComplete \o last.newLine[i]) \in Range(last.candidates)

(***************************************************************************)
(* Properties of spawnCommand and its tasks.                               *)
(***************************************************************************)

\* spawnCommand has returned from a run on a pseudo-terminal
PtyReturned == pty.pc = "returned" /\ pty.mode = "pty"

\* C31: no task of a PTY-mode spawn outlives the spawn: spawnCommand returns
\* only after the child has exited and the copy from the pseudo-terminal to
\* stdout has read everything, and when it has returned the stdin copy task
\* and the resize watcher have ended: no task of the finished spawn reads
\* from the parent's standard input or uses the closed descriptor.
C31_NoTaskOutlivesSpawn ==
    PtyReturned =>
        /\ pty.child = "exited"
        /\ pty.err = "none" => pty.buf = 0
        /\ pty.stdinCopy \in {"none", "done"}
        /\ pty.watcher = "done"
        /\ pty.stolen = 0 /\ ~pty.lateInherit

\* C32: the pseudo-terminal's master descriptor is opened at most once in a
\* call of spawnCommand and, when it was opened, it is closed exactly once
\* before the call returns, on every path; it is never closed twice and never
\* left open after the call.
C32_PtyDescriptorLifetime ==
    /\ pty.pc # "idle" =>
          /\ pty.opens <= 1 /\ pty.closes <= pty.opens
          /\ pty.ptmx = "open" <=> (pty.opens = 1 /\ pty.closes = 0)
    /\ pty.pc = "returned" => pty.closes = pty.opens

\* a return after term.MakeRaw failed, the descriptor opened and closed
C32_Witness ==
    /\ PtyReturned /\ pty.err = "raw"
    /\ pty.opens = 1 /\ pty.closes = 1 /\ pty.ptmx = "closed"

\* the pseudo-terminal could be allocated and the command started on it
Allocated == pty.ptyOK /\ pty.canStart

WatcherIdle ==
    /\ pty.notify /\ pty.watcher = "ranging" /\ pty.chanBuf = 0
    /\ pty.pc \notin {"notify", "sendWinch"}

\* C34: in PTY mode the terminal's size is given to the pseudo-terminal
\* before the child has produced any output, and again on every resize
\* notification while the child runs, so that once the notifications are
\* handled the pseudo-terminal has the terminal's current size; no
\* propagation is tried after the spawn has returned.
C34_ResizePropagation ==
    pty.mode = "pty" =>
        /\ pty.firstWrite # "unsized"
        /\ WatcherIdle => pty.ptySize = pty.termSize
        /\ ~pty.lateInherit

(***************************************************************************)
(* Properties of the help-text parser.                                     *)
(***************************************************************************)

\* a line with nothing but white space
BlankLine(line) == \A i \in 1..Len(line) : IsSpace(line[i])

\* a line that is not blank and starts at the left margin
Unindented(line) == ~BlankLine(line) /\ line[1] \notin {" ", "\t"}

\* the section before line i of a parsed help text
SectionBefore(i) == IF i = 1 THEN "secNone" ELSE last.sections[i - 1]

\* line i of a parsed help text takes the parser into section sec
Enters(i, sec) == last.sections[i] = sec /\ SectionBefore(i) # sec

\* the line is one of the headers, or (whole = FALSE) starts with one
IsHeader(line, headers, whole) ==
    \E h \in headers : IF whole THEN line = h ELSE HasPrefix(line, h)

\* the section machine of a parsed help text, for the two readings of what
\* a header line is
SectionMachine(whole) ==
    last.op = "parseHelp" =>
        \A i \in 1..Len(last.lines) :
            LET line    == last.lines[i]
                cmdHdr  == Unindented(line)
                           /\ IsHeader(line, {HdrAvailableCommands, HdrCommands}, whole)
                flagHdr == Unindented(line)
                           /\ IsHeader(line, {HdrFlags, HdrGlobalFlags}, whole)
            IN  /\ cmdHdr => last.sections[i] = "secCommands"
                /\ flagHdr => last.sections[i] = "secFlags"
                /\ BlankLine(line) => last.sections[i] = "secNone"
                /\ Enters(i, "secCommands") => cmdHdr
                /\ Enters(i, "secFlags") => flagHdr

\* C35 as stated: the section starts as None; an unindented line that is
\* one of the literal headers "Available Commands:" or "Commands:" enters
\* Commands, one that is "Flags:" or "Global Flags:" enters Flags; any blank
\* line returns to None; no other line enters Commands or Flags.
C35_SectionMachine_AsStated == SectionMachine(TRUE)

\* C35: the section starts as None; an unindented line that starts with one
\* of the literal headers "Available Commands:" or "Commands:" enters
\* Commands, one that starts with "Flags:" or "Global Flags:" enters Flags
\* (case-sensitive); any blank line returns to None; no other line enters
\* Commands or Flags.
C35_SectionMachine == SectionMachine(FALSE)

\* a text whose first line is a header with text after it, followed by a
\* command and a blank line
C35_Witness ==
    /\ last.op = "parseHelp" /\ Len(last.lines) = 3
    /\ last.lines[1] = HdrCommands \o <<" ", "x">>
    /\ last.sections = <<"secCommands", "secCommands", "secNone">>
    /\ last.candidates = <<W_grep>>

\* a token without its trailing comma
DropComma(t) ==
    IF t # <<>> /\ t[Len(t)] = "," THEN SubSeq(t, 1, Len(t) - 1) ELSE t

\* what line i of a parsed help text has to yield: nothing unless it is
\* indented and the section is Commands or Flags; in Commands its first
\* token; in Flags its first token that starts with "--", without the
\* trailing comma, if it has one
Yield(i) ==
    LET line   == last.lines[i]
        tokens == Fields(line)
        long   == {k \in 1..Len(tokens) : HasPrefix(tokens[k], <<"-", "-">>)}
    IN  IF BlankLine(line) \/ Unindented(line) THEN <<>>
        ELSE IF SectionBefore(i) = "secCommands" THEN <<tokens[1]>>
        ELSE IF SectionBefore(i) = "secFlags" /\ long # {}
        THEN <<DropComma(tokens[CHOOSE k \in long : \A j \in long : k <= j])>>
        ELSE <<>>

RECURSIVE YieldsFrom(_)
YieldsFrom(i) ==
    IF i > Len(last.lines) THEN <<>> ELSE Yield(i) \o YieldsFrom(i + 1)

RECURSIVE shFirstWord(_, _, _)
shFirstWord(s, quoted, word) ==
    IF s = <<>> THEN [ok |-> ~quoted, word |-> word, rest |-> <<>>]
    ELSE IF s[1] = "'" THEN shFirstWord(Tail(s), ~quoted, word)
    ELSE IF ~quoted /\ s[1] = " " THEN [ok |-> TRUE, word |-> word, rest |-> Tail(s)]
    ELSE shFirstWord(Tail(s), quoted, Append(word, s[1]))

\* the scripts of the pipelines Run has started
PipelineScripts ==
    {runLog[i].argv[2] : i \in {j \in 1..Len(runLog) :
                                   runLog[j].ev = "spawn" /\ runLog[j].path = S_sh}}

\* C37: for every BinaryPath that New accepts, the resolved path in a
\* pipeline script has no single quote, so that the shell reads the quoted
\* path at the start of the script as exactly one word, the resolved path,
\* and the line after it as the rest of the script.
C37_SingleQuotingIsSafe ==
    \A script \in PipelineScripts :
        /\ \A i \in 1..Len(binary) : binary[i] # "'"
        /\ LET w == shFirstWord(script, FALSE, <<>>)
           IN  w.ok /\ w.word = binary

(***************************************************************************)
(* Properties of the order of SessionEnv.                                  *)
(***************************************************************************)

\* the variable name of a "KEY=VALUE" string
KeyOf(pair) == Split(pair, "=")[1]

\* a is the beginning of the longer b
ProperPrefix(a, b) == Len(a) < Len(b) /\ HasPrefix(b, a)

\* C38 as stated: SessionEnv lists the session variables in ascending order
\* of variable name, also when one key is the beginning of another (A, A1).
C38_SortedByName_AsStated ==
    last.op = "SessionEnv" =>
        \A i, j \in 1..Len(last.pairs) :
            i < j => StrLess(KeyOf(last.pairs[i]), KeyOf(last.pairs[j]))

\* C38: SessionEnv lists the session variables in ascending byte order of
\* their "KEY=VALUE" strings: two keys of which none is the beginning of the
\* other come in ascending order of name; of a key and a longer key that
\* begins with it, the longer one comes first exactly when its next
\* character sorts before "=" (A1=.. before A=.., A=.. before AB=..).
C38_SortedByPair ==
    last.op = "SessionEnv" =>
        \A i, j \in 1..Len(last.pairs) :
            i < j =>
                LET a == KeyOf(last.pairs[i])
                    b == KeyOf(last.pairs[j])
                IN  /\ StrLess(last.pairs[i], last.pairs[j])
                    /\ (~ProperPrefix(a, b) /\ ~ProperPrefix(b, a)) => StrLess(a, b)
                    /\ ProperPrefix(a, b) => Code("=") < Code(b[Len(a) + 1])
                    /\ ProperPrefix(b, a) => Code(a[Len(b) + 1]) < Code("=")

\* the four variables listed: A1 before A, A before AB, AB before B
C38_Witness ==
    /\ last.op = "SessionEnv" /\ Len(last.pairs) = 4
    /\ KeyOf(last.pairs[1]) = K_A1 /\ KeyOf(last.pairs[2]) = K_A
    /\ KeyOf(last.pairs[3]) = K_AB /\ KeyOf(last.pairs[4]) = K_B

(***************************************************************************)
(* Properties of the session-environment methods on every Shell of New.    *)
(***************************************************************************)

\* C39: SetEnv, UnsetEnv and SessionEnv complete without a runtime failure on
\* every Shell that New returns, also on the one whose binary could not be
\* resolved, in any order and any number of times.
C39_EnvMethodsSafe ==
    last.op \in {"SetEnv", "UnsetEnv", "SessionEnv"} =>
        last.status = "returned" /\ ~crashed

(***************************************************************************)
(* Termination of spawnCommand after a failed switch to raw mode.          *)
(***************************************************************************)

\* C40: when the switch of the parent terminal to raw mode fails after the
\* child was started on the pseudo-terminal, spawnCommand still returns, also
\* for a child that writes more output than the pseudo-terminal buffers.
C40_RawFailureTerminates == (pty.pc = "rawFailWait") ~> PtyReturned

====
